---- MODULE Spec2Model ----
(***************************************************************************)
(* A model of discord-embed-bot's hot-reloadable configuration store       *)
(* (src/config.rs), its self-updating yt-dlp manager and the acquisition   *)
(* pipeline (src/yt_dlp.rs).                                               *)
(***************************************************************************)
EXTENDS Integers, Sequences, FiniteSets, TLC

(***************************************************************************)
(* Bounds of the model.                                                    *)
(***************************************************************************)
\* edit() calls made in one behaviour
MaxEdits == 2
\* tokens of a document that reach the disk before a write_all fails
MaxPartial == 1

(***************************************************************************)
(* Program constants.                                                      *)
(***************************************************************************)
\* u16::MAX: the largest value of the AtomicU16 edit counter, and the
\* sentinel generation of a fresh thread-local cache
U16_MAX == 65535

U16_MOD == U16_MAX + 1

Editors == {"e1", "e2"}
Readers == {"r1", "r2"}
Threads == {"t1", "t2"}

NoTask == "none"

NoThread == "none"

\* Option<T>: None is the empty sequence, Some(v) the one-element sequence
None == <<>>

Some(v) == <<v>>

(***************************************************************************)
(* Config, its JSON text and its compiled form.                            *)
(***************************************************************************)
\* A pattern is a sequence of tokens: a literal, the $URLCHAR macro, or an
\* unclosed group "(" that the regex crate rejects.
\* regex_macros: every occurrence of $URLCHAR becomes the character class
regex_macros(regex) ==
    [i \in DOMAIN regex |-> IF regex[i] = "$URLCHAR" THEN "[URLCHAR]" ELSE regex[i]]

\* a build that lets an unclosed group through
RegexBuild_NoError(pattern) ==
    [ok |-> TRUE, value |-> [pattern |-> pattern, case_insensitive |-> TRUE]]

\* RegexBuilder::new(..).case_insensitive(true).build()
RegexBuild(pattern) ==
    IF \E i \in DOMAIN pattern : pattern[i] = "("
    THEN [ok |-> FALSE]
    ELSE [ok |-> TRUE, value |-> [pattern |-> pattern, case_insensitive |-> TRUE]]

\* Config::default()
ConfigDefault == [link_regexes |-> <<>>, admin_guild |-> None]

\* CompiledConfig::try_from(&Config): every rule's pattern is macro-expanded
\* and compiled; the first failure fails the whole conversion
CompiledConfigTryFrom(config) ==
    LET built == [i \in DOMAIN config.link_regexes |->
                     RegexBuild(regex_macros(config.link_regexes[i].regex))]
    IN  IF \E i \in DOMAIN built : ~built[i].ok
        THEN [ok |-> FALSE]
        ELSE [ok |-> TRUE,
              value |-> [link_regexes |->
                            [i \in DOMAIN built |->
                                [regex |-> built[i].value,
                                 fixup |-> config.link_regexes[i].fixup,
                                 no_video |-> config.link_regexes[i].no_video]],
                         admin_guild |-> config.admin_guild]]

\* CompiledConfig::default()
CompiledConfigDefault == CompiledConfigTryFrom(ConfigDefault).value

\* serde_json::to_string_pretty(&config): the document as a sequence of
\* tokens, one per rule between the braces, then the admin guild
OpenTok == [t |-> "{"]

CloseTok == [t |-> "}"]

RuleTok(rule) == [t |-> "rule", regex |-> rule.regex, fixup |-> rule.fixup, no_video |-> rule.no_video]

AdminTok(admin) == [t |-> "admin_guild", admin |-> admin]

ToStringPretty(config) ==
    <<OpenTok>>
    \o [i \in DOMAIN config.link_regexes |-> RuleTok(config.link_regexes[i])]
    \o <<AdminTok(config.admin_guild), CloseTok>>

\* serde_json::from_str::<Config>: the braces must be there, link_regexes
\* are the rule tokens in order, and a missing admin_guild reads as None
FromStr(text) ==
    LET n == Len(text)
        hasAdmin == n >= 3 /\ text[n - 1].t = "admin_guild"
        lastRule == IF hasAdmin THEN n - 2 ELSE n - 1
    IN  IF /\ n >= 2
           /\ text[1] = OpenTok
           /\ text[n] = CloseTok
           /\ \A i \in 2..lastRule : text[i].t = "rule"
        THEN [ok |-> TRUE,
              value |-> [link_regexes |->
                            [i \in 1..(lastRule - 1) |->
                                [regex |-> text[i + 1].regex,
                                 fixup |-> text[i + 1].fixup,
                                 no_video |-> text[i + 1].no_video]],
                         admin_guild |-> IF hasAdmin THEN text[n - 1].admin ELSE None]]
        ELSE [ok |-> FALSE]

\* The configs the admin channel sends in this model
AdminGuildA == [guild_id |-> 1, log_channel_id |-> 2, config_channel_id |-> 3]

ConfigA ==
    [link_regexes |-> <<[regex |-> <<"a">>, fixup |-> None, no_video |-> None]>>,
     admin_guild |-> None]

ConfigB ==
    [link_regexes |-> <<[regex |-> <<"b", "$URLCHAR">>, fixup |-> Some("fx"), no_video |-> None]>>,
     admin_guild |-> Some(AdminGuildA)]

\* parses, but its pattern does not compile
ConfigBadRegex ==
    [link_regexes |-> <<[regex |-> <<"(">>, fixup |-> None, no_video |-> None]>>,
     admin_guild |-> None]

\* a document cut short: not JSON
TextTruncated == SubSeq(ToStringPretty(ConfigA), 1, 2)

EditInputs ==
    {ToStringPretty(ConfigA), ToStringPretty(ConfigB), ToStringPretty(ConfigBadRegex), TextTruncated}

(***************************************************************************)
(* State.                                                                  *)
(***************************************************************************)
VARIABLES
    edit_count,     \* ConfigDaemonInner.edit_count: AtomicU16
    store_config,   \* ConfigStore.config: SignedConfig [signature, config]
    store_file,     \* ConfigStore.file: [data: the bytes on disk, pos: the cursor]
    store_lock,     \* ConfigDaemonInner.store: the editor holding the Mutex, or NoTask
    ed_pc,          \* each edit() call's position
    ed_new,         \* edit(): the argument `new`, the raw text
    ed_edit_count,  \* edit(): the local `edit_count` returned by fetch_add
    ed_last,        \* what the edit() call that returned last returned
    pre_file,       \* the file as the edit in the critical section found it
    edits_started,  \* number of edit() calls made so far
    cache,          \* CONFIG_CACHE of each worker thread: [edit_count, config]
    rd_pc,          \* each get() call's position
    rd_thread,      \* the worker thread a get() call past the lock runs on
    rd_local,       \* get(): the local SignedConfig { signature, config }
    rd_fresh,       \* no edit has bumped the counter since the call read the store
    last_ret,       \* per worker thread: generation of the last config returned on it
    committed       \* every SignedConfig the store has held

cfg_vars ==
    <<edit_count, store_config, store_file, store_lock, ed_pc, ed_new, ed_edit_count,
      ed_last, pre_file, edits_started, cache, rd_pc, rd_thread, rd_local, rd_fresh,
      last_ret, committed>>

\* the yt-dlp manager (src/yt_dlp.rs)
VARIABLES
    now,                \* the monotonic clock (Instant::now()), in minutes
    last_update_check,  \* YtDlpDaemonInner.last_update_check: the Instant in the Mutex
    luc_lock,           \* the task holding the last_update_check Mutex, or NoTask
    yt_dlp,             \* YtDlpDaemonInner.yt_dlp: YtDlp [tag_name, exe_path]
    rw_writer,          \* the update task holding the RwLock write guard, or NoTask
    rw_readers,         \* the acquisitions holding a RwLock read guard
    rw_queue,           \* the tasks waiting for the RwLock, first come first served
    exe_dir,            \* directory yt_dlp_exe: [exists, files: path -> [len, exec]]
    upd_pc,             \* each spawned update() task's position
    upd_release,        \* update(): the local `release`
    upd_had_exe         \* the served executable was runnable when update() took the write lock

upd_vars ==
    <<now, last_update_check, luc_lock, yt_dlp, rw_writer, rw_readers, rw_queue, exe_dir,
      upd_pc, upd_release, upd_had_exe>>

\* the requests (src/discord.rs, src/cmd.rs, src/yt_dlp.rs)
VARIABLES
    acq_pc,         \* each request's position
    acq_attempt,    \* which call of YtDlpDaemon::download the request is in
    acq_probe,      \* what MediaProbe::get returned in this call: "none", "err", "corrupt",
                    \* "compatible" or "incompatible"
    acq_duration,   \* reencode_duration's inner Option<Duration>: the duration of an incompatible file
    acq_reencode,   \* what reencode_video did in this call: None, or Some([cmd, step])
    acq_url,        \* the url field of the DownloadedMedia the call returned
    acq_result,     \* the value YtDlpDaemon::download returned
    out_dir,        \* the files in yt_dlp_out: [req, attempt, file]
    deleting        \* files the tasks spawned by DownloadedMedia::drop are about to remove

acq_vars ==
    <<acq_pc, acq_attempt, acq_probe, acq_duration, acq_reencode, acq_url, acq_result, out_dir,
      deleting>>

dae_vars == <<upd_vars, acq_vars>>

\* the functions taken alone: MediaProbe::get (src/ffprobe.rs) and
\* YtDlpRelease::latest (src/yt_dlp.rs), each with its input and its result
VARIABLES
    ffprobe_run,    \* MediaProbe::get: the file's metadata and what the ffprobe process gave
    media_probe,    \* MediaProbe::get: None, or Some(the value returned)
    releases,       \* YtDlpRelease::latest: what Releases::get returned
    latest,         \* YtDlpRelease::latest: None, or Some(the value returned)
    api_data,       \* extract_slideshow_images: the JSON of the item-detail API
    slideshow,      \* extract_slideshow_images: None, or Some(the error or the ffmpeg command)
    message_in,     \* generic_message: the link, its rule and what the handler's calls gave
    message_out     \* generic_message: None, or Some(what the handler did)

fn_vars == <<ffprobe_run, media_probe, releases, latest, api_data, slideshow, message_in,
            message_out>>

vars == <<cfg_vars, dae_vars, fn_vars>>

SignedConfig(signature, config) == [signature |-> signature, config |-> config]

NoLocal == [signature |-> -1, config |-> CompiledConfigDefault]

\* ConfigDaemon::new on an empty or missing file after `start` edits were
\* committed since, and the thread_local! initialiser of every worker
InitConfig(start) ==
    /\ edit_count = start
    /\ store_config = SignedConfig(start, CompiledConfigDefault)
    /\ store_file = [data |-> ToStringPretty(ConfigDefault), pos |-> Len(ToStringPretty(ConfigDefault))]
    /\ store_lock = NoTask
    /\ ed_pc = [e \in Editors |-> "idle"]
    /\ ed_new = [e \in Editors |-> <<>>]
    /\ ed_edit_count = [e \in Editors |-> 0]
    /\ ed_last = [new |-> <<>>, result |-> "none"]
    /\ pre_file = ToStringPretty(ConfigDefault)
    /\ edits_started = 0
    /\ cache = [t \in Threads |-> [edit_count |-> U16_MAX, config |-> CompiledConfigDefault]]
    /\ rd_pc = [r \in Readers |-> "idle"]
    /\ rd_thread = [r \in Readers |-> NoThread]
    /\ rd_local = [r \in Readers |-> NoLocal]
    /\ rd_fresh = [r \in Readers |-> FALSE]
    /\ last_ret = [t \in Threads |-> -1]
    /\ committed = {SignedConfig(start, CompiledConfigDefault)}


(***************************************************************************)
(* ConfigDaemon::edit                                                      *)
(***************************************************************************)
\* lines 137-138: parse and compile, before the store is touched; `?` returns
\* the error to the caller
EditValidate(e, new) ==
    /\ ed_pc[e] = "idle"
    /\ edits_started < MaxEdits
    /\ edits_started' = edits_started + 1
    /\ LET parsed == FromStr(new)
           compiled == IF parsed.ok THEN CompiledConfigTryFrom(parsed.value) ELSE [ok |-> FALSE]
       IN  IF ~parsed.ok
           THEN /\ ed_last' = [new |-> new, result |-> "ParseErr"]
                /\ UNCHANGED <<ed_pc, ed_new>>
           ELSE IF ~compiled.ok
           THEN /\ ed_last' = [new |-> new, result |-> "RegexErr"]
                /\ UNCHANGED <<ed_pc, ed_new>>
           ELSE /\ ed_pc' = [ed_pc EXCEPT ![e] = "lock"]
                /\ ed_new' = [ed_new EXCEPT ![e] = new]
                /\ UNCHANGED ed_last
    /\ UNCHANGED <<edit_count, store_config, store_file, store_lock, ed_edit_count, pre_file,
                   cache, rd_pc, rd_thread, rd_local, rd_fresh, last_ret, committed>>
    /\ UNCHANGED <<dae_vars, fn_vars>>

\* lines 141-142: take the Mutex, then fetch_add(1) on the atomic counter
EditLock(e) ==
    /\ ed_pc[e] = "lock"
    /\ store_lock = NoTask
    /\ store_lock' = e
    /\ pre_file' = store_file.data
    /\ ed_edit_count' = [ed_edit_count EXCEPT ![e] = edit_count]
    /\ edit_count' = (edit_count + 1) % U16_MOD
    /\ rd_fresh' = [r \in Readers |-> FALSE]
    /\ ed_pc' = [ed_pc EXCEPT ![e] = "set_len"]
    /\ UNCHANGED <<store_config, store_file, ed_new, ed_last, edits_started, cache,
                   rd_pc, rd_thread, rd_local, last_ret, committed>>
    /\ UNCHANGED <<dae_vars, fn_vars>>

\* the edit() call returns `result`: the guard is dropped, the locals die
EditReturn(e, result) ==
    /\ store_lock' = NoTask
    /\ ed_pc' = [ed_pc EXCEPT ![e] = "idle"]
    /\ ed_new' = [ed_new EXCEPT ![e] = <<>>]
    /\ ed_edit_count' = [ed_edit_count EXCEPT ![e] = 0]
    /\ ed_last' = [new |-> ed_new[e], result |-> result]

\* line 144: store.file.set_len(0).await?  (the cursor stays where it was)
EditSetLen(e, io_ok) ==
    /\ ed_pc[e] = "set_len"
    /\ IF io_ok
       THEN /\ store_file' = [store_file EXCEPT !.data = <<>>]
            /\ ed_pc' = [ed_pc EXCEPT ![e] = "write"]
            /\ UNCHANGED <<store_lock, ed_last, ed_new, ed_edit_count>>
       ELSE /\ EditReturn(e, "IoErr")
            /\ UNCHANGED store_file
    /\ UNCHANGED <<edit_count, store_config, pre_file, edits_started,
                   cache, rd_pc, rd_thread, rd_local, rd_fresh, last_ret, committed>>
    /\ UNCHANGED <<dae_vars, fn_vars>>

\* the file after `written` tokens of `text` were written at the cursor `pos`
\* (a write past the end of the file fills the gap with zero bytes)
ZeroTok == [t |-> "\\0"]

WriteAt(data, pos, text, written) ==
    LET upto == pos + written
        len == IF upto > Len(data) THEN upto ELSE Len(data)
    IN  [i \in 1..len |->
            IF i > pos /\ i <= upto THEN text[i - pos]
            ELSE IF i <= Len(data) THEN data[i]
            ELSE ZeroTok]

\* line 149: signature: edit_count + 1 on a u16. Past u16::MAX the addition
\* wraps in a release build and panics in a debug build.
SignatureOutcomes(old) ==
    IF old + 1 > U16_MAX THEN {"wrap", "panic"} ELSE {"value"}

\* how far a write_all of `text` may get: all of it, or a failure after at
\* most MaxPartial tokens
WriteOutcomes(text) == {n \in 0..Len(text) : n <= MaxPartial \/ n = Len(text)}

\* every count of tokens write_all can have written of some document
WrittenCounts == UNION {0..Len(text) : text \in EditInputs}

\* lines 145-151: seek to the start, write_all the pretty JSON, then replace
\* store.config; the guard is dropped when the block ends or `?` returns.
\* `config` is the document parsed at line 137. seek_ok = FALSE: seek fails. written < length: write_all fails after
\* `written` tokens.
EditWrite(e, seek_ok, written) ==
    /\ ed_pc[e] = "write"
    /\ LET config == FromStr(ed_new[e]).value
           text == ToStringPretty(config)
       IN  /\ written \in WriteOutcomes(text)
           /\ IF ~seek_ok
              THEN /\ written = 0
                   /\ EditReturn(e, "IoErr")
                   /\ UNCHANGED <<store_file, store_config, committed>>
              ELSE /\ store_file' = [data |-> WriteAt(store_file.data, 0, text, written),
                                     pos |-> written]
                   /\ IF written < Len(text)
                      THEN /\ EditReturn(e, "IoErr")
                           /\ UNCHANGED <<store_config, committed>>
                      ELSE \E outcome \in SignatureOutcomes(ed_edit_count[e]) :
                              IF outcome = "panic"
                              THEN /\ EditReturn(e, "Panic")
                                   /\ UNCHANGED <<store_config, committed>>
                              ELSE /\ store_config' =
                                         SignedConfig((ed_edit_count[e] + 1) % U16_MOD,
                                                      CompiledConfigTryFrom(config).value)
                                   /\ committed' = committed \cup {store_config'}
                                   /\ EditReturn(e, "Ok")
    /\ UNCHANGED <<edit_count, pre_file, edits_started, cache, rd_pc,
                   rd_thread, rd_local, rd_fresh, last_ret>>
    /\ UNCHANGED <<dae_vars, fn_vars>>

(***************************************************************************)
(* ConfigDaemon::get                                                       *)
(***************************************************************************)
\* a worker thread runs one task at a time: between the clone of the store's
\* pair and the re-check of the counter get() does not await, so no other task
\* runs on that thread
ThreadFree(t) == \A r \in Readers : rd_thread[r] # t

\* lines 170-178: the lock-free check of the thread's cache against the counter
GetFast(r, t) ==
    /\ rd_pc[r] = "idle"
    /\ ThreadFree(t)
    /\ IF cache[t].edit_count = edit_count
       THEN /\ last_ret' = [last_ret EXCEPT ![t] = cache[t].edit_count]
            /\ UNCHANGED rd_pc
       ELSE /\ rd_pc' = [rd_pc EXCEPT ![r] = "lock"]
            /\ UNCHANGED last_ret
    /\ UNCHANGED <<edit_count, store_config, store_file, store_lock, ed_pc, ed_new,
                   ed_edit_count, ed_last, pre_file, edits_started, cache, rd_thread,
                   rd_local, rd_fresh, committed>>
    /\ UNCHANGED <<dae_vars, fn_vars>>

\* lines 181-186: lock the store, clone the SignedConfig, drop the guard, and
\* store the pair in the cache of the thread the task resumed on
GetLock(r, t) ==
    /\ rd_pc[r] = "lock"
    /\ ThreadFree(t)
    /\ store_lock = NoTask
    /\ rd_thread' = [rd_thread EXCEPT ![r] = t]
    /\ rd_local' = [rd_local EXCEPT ![r] = store_config]
    /\ rd_fresh' = [rd_fresh EXCEPT ![r] = TRUE]
    /\ cache' = [cache EXCEPT ![t] = [edit_count |-> store_config.signature,
                                      config |-> store_config.config]]
    /\ rd_pc' = [rd_pc EXCEPT ![r] = "check"]
    /\ UNCHANGED <<edit_count, store_config, store_file, store_lock, ed_pc, ed_new,
                   ed_edit_count, ed_last, pre_file, edits_started, last_ret, committed>>
    /\ UNCHANGED <<dae_vars, fn_vars>>

\* lines 188-190: re-read the counter; equal: break with the config, else loop
GetCheck(r) ==
    /\ rd_pc[r] = "check"
    /\ IF edit_count = rd_local[r].signature
       THEN /\ rd_pc' = [rd_pc EXCEPT ![r] = "idle"]
            /\ last_ret' = [last_ret EXCEPT ![rd_thread[r]] = rd_local[r].signature]
       ELSE /\ rd_pc' = [rd_pc EXCEPT ![r] = "lock"]
            /\ UNCHANGED last_ret
    /\ rd_thread' = [rd_thread EXCEPT ![r] = NoThread]
    /\ rd_local' = [rd_local EXCEPT ![r] = NoLocal]
    /\ rd_fresh' = [rd_fresh EXCEPT ![r] = FALSE]
    /\ UNCHANGED <<edit_count, store_config, store_file, store_lock, ed_pc, ed_new,
                   ed_edit_count, ed_last, pre_file, edits_started, cache, committed>>
    /\ UNCHANGED <<dae_vars, fn_vars>>

(***************************************************************************)
(* The yt-dlp manager (src/yt_dlp.rs): releases, the artifact directory,   *)
(* the RwLock around the managed executable, and the update check.         *)
(***************************************************************************)
\* bounds
\* advances of the clock, each by one update-check interval
MaxTicks == 4

\* YT_DLP_UPDATE_CHECK_INTERVAL, in minutes
YT_DLP_UPDATE_CHECK_INTERVAL == 30

\* the requests: link messages (src/discord.rs) and /download commands (src/cmd.rs)
Messages == {"m1"}

Commands == {"c1"}

Acquirers == Messages \cup Commands
Updaters == {"u1", "u2"}

\* A version tag is a sequence of characters.
IsAsciiAlphanumeric(c) == c \in {"0", "1", "2", "v"}

\* download_release, lines 108-111: every character that is not ASCII
\* alphanumeric becomes '-'
FsTagName(tag_name) ==
    [i \in DOMAIN tag_name |-> IF IsAsciiAlphanumeric(tag_name[i]) THEN tag_name[i] ELSE "-"]

\* download_release, lines 113-127: yt_dlp_exe/yt_dlp_{fs_tag_name}[.ext]
ExePath(tag_name) == <<"yt_dlp_exe", FsTagName(tag_name)>>

\* YtDlpRelease values the release feed serves in this model
ReleaseOld == [tag_name |-> <<"1", ".", "0">>, size |-> 1]

ReleaseNew == [tag_name |-> <<"2", ".", "0">>, size |-> 2]

Releases == {ReleaseOld, ReleaseNew}

NoRelease == [tag_name |-> <<>>, size |-> 0]

\* Command::new(self.exe_path) can spawn the served executable
ServedRunnable(dir, served) ==
    /\ dir.exists
    /\ served.exe_path \in DOMAIN dir.files
    /\ dir.files[served.exe_path].exec
    /\ dir.files[served.exe_path].len > 0

\* YtDlpDaemon::new: the first release downloaded and installed, the clock read
InitUpdater ==
    /\ now = 0
    /\ last_update_check = 0
    /\ luc_lock = NoTask
    /\ yt_dlp = [tag_name |-> ReleaseOld.tag_name, exe_path |-> ExePath(ReleaseOld.tag_name)]
    /\ rw_writer = NoTask
    /\ rw_readers = {}
    /\ rw_queue = <<>>
    /\ exe_dir = [exists |-> TRUE,
                  files |-> [p \in {ExePath(ReleaseOld.tag_name)} |->
                                [len |-> ReleaseOld.size, exec |-> TRUE]]]
    /\ upd_pc = [u \in Updaters |-> "unspawned"]
    /\ upd_release = [u \in Updaters |-> NoRelease]
    /\ upd_had_exe = [u \in Updaters |-> FALSE]

\* the clock advances by one interval. The feed request carries a 7 s timeout
\* (line 57), so no update() is still fetching the feed an interval later.
Tick ==
    /\ now < MaxTicks * YT_DLP_UPDATE_CHECK_INTERVAL
    /\ \A u \in Updaters : upd_pc[u] # "latest"
    /\ now' = now + YT_DLP_UPDATE_CHECK_INTERVAL
    /\ UNCHANGED <<last_update_check, luc_lock, yt_dlp, rw_writer, rw_readers, rw_queue,
                   exe_dir, upd_pc, upd_release, upd_had_exe>>
    /\ UNCHANGED <<acq_vars, cfg_vars, fn_vars>>

(***************************************************************************)
(* tokio::sync::RwLock: fair, first come first served                      *)
(***************************************************************************)
\* task `who` is the first waiter and the lock admits a reader
CanRead(who) ==
    /\ rw_writer = NoTask
    /\ rw_queue # <<>>
    /\ Head(rw_queue) = who

\* a write lock that is granted while read guards are out
CanWrite_OverReaders(who) ==
    /\ rw_writer = NoTask
    /\ rw_queue # <<>>
    /\ Head(rw_queue) = who

\* task `who` is the first waiter and the lock admits a writer
CanWrite(who) ==
    /\ rw_writer = NoTask
    /\ rw_readers = {}
    /\ rw_queue # <<>>
    /\ Head(rw_queue) = who

(***************************************************************************)
(* YtDlpDaemon::update, YtDlp::download_release                            *)
(***************************************************************************)
\* update() returns: its locals die, the write guard (if held) is dropped
UpdateReturn(u, pc) ==
    /\ upd_pc' = [upd_pc EXCEPT ![u] = pc]
    /\ upd_release' = [upd_release EXCEPT ![u] = NoRelease]
    /\ upd_had_exe' = [upd_had_exe EXCEPT ![u] = FALSE]
    /\ rw_writer' = IF rw_writer = u THEN NoTask ELSE rw_writer

\* line 355: YtDlpRelease::latest().await?  `ok = FALSE`: the feed cannot be
\* fetched or parsed, or holds no release. Then line 357 asks for the write lock.
UpdateLatest(u, ok, release) ==
    /\ upd_pc[u] = "latest"
    /\ IF ok
       THEN /\ upd_pc' = [upd_pc EXCEPT ![u] = "write_lock"]
            /\ upd_release' = [upd_release EXCEPT ![u] = release]
            /\ rw_queue' = Append(rw_queue, u)
            /\ UNCHANGED <<upd_had_exe, rw_writer>>
       ELSE /\ UpdateReturn(u, "failed")
            /\ UNCHANGED rw_queue
    /\ UNCHANGED <<now, last_update_check, luc_lock, yt_dlp, rw_readers, exe_dir>>
    /\ UNCHANGED <<acq_vars, cfg_vars, fn_vars>>

\* update() without the comparison of tags of lines 359-364
UpdateWriteLock_NoTagCheck(u) ==
    /\ upd_pc[u] = "write_lock"
    /\ CanWrite(u)
    /\ rw_queue' = Tail(rw_queue)
    /\ LET release == upd_release[u]
           exe_path == ExePath(release.tag_name)
       IN  IF /\ exe_dir.exists
              /\ exe_path \in DOMAIN exe_dir.files
              /\ exe_dir.files[exe_path].len = release.size
           THEN /\ yt_dlp' = [tag_name |-> release.tag_name, exe_path |-> exe_path]
                /\ UpdateReturn(u, "updated")
           ELSE /\ rw_writer' = u
                /\ upd_pc' = [upd_pc EXCEPT ![u] = "wipe"]
                /\ upd_had_exe' = [upd_had_exe EXCEPT ![u] = ServedRunnable(exe_dir, yt_dlp)]
                /\ UNCHANGED <<yt_dlp, upd_release>>
    /\ UNCHANGED <<now, last_update_check, luc_lock, rw_readers, exe_dir>>
    /\ UNCHANGED <<acq_vars, cfg_vars, fn_vars>>

\* lines 357-364 and download_release lines 99-139: the write guard is
\* granted; equal tags return Ok; a file of the expected size at the release's
\* path is reused and swapped in; otherwise the download starts
UpdateWriteLock(u) ==
    /\ upd_pc[u] = "write_lock"
    /\ CanWrite(u)
    /\ rw_queue' = Tail(rw_queue)
    /\ LET release == upd_release[u]
           exe_path == ExePath(release.tag_name)
       IN  IF release.tag_name = yt_dlp.tag_name
           THEN /\ UpdateReturn(u, "up_to_date")
                /\ UNCHANGED yt_dlp
           ELSE IF /\ exe_dir.exists
                   /\ exe_path \in DOMAIN exe_dir.files
                   /\ exe_dir.files[exe_path].len = release.size
           THEN /\ yt_dlp' = [tag_name |-> release.tag_name, exe_path |-> exe_path]
                /\ UpdateReturn(u, "updated")
           ELSE /\ rw_writer' = u
                /\ upd_pc' = [upd_pc EXCEPT ![u] = "wipe"]
                /\ upd_had_exe' = [upd_had_exe EXCEPT ![u] = ServedRunnable(exe_dir, yt_dlp)]
                /\ UNCHANGED <<yt_dlp, upd_release>>
    /\ UNCHANGED <<now, last_update_check, luc_lock, rw_readers, exe_dir>>
    /\ UNCHANGED <<acq_vars, cfg_vars, fn_vars>>

\* download_release that creates the directory without removing it first
UpdateWipe_KeepFiles(u, step) ==
    /\ upd_pc[u] = "wipe"
    /\ step \in {"remove", "create", "ok"}
    /\ step = "remove" => exe_dir.exists
    /\ exe_dir' = CASE step = "remove" -> exe_dir
                    [] step = "create" -> exe_dir
                    [] step = "ok" -> [exe_dir EXCEPT !.exists = TRUE]
    /\ IF step = "ok"
       THEN /\ upd_pc' = [upd_pc EXCEPT ![u] = "fetch"]
            /\ UNCHANGED <<upd_release, upd_had_exe, rw_writer>>
       ELSE UpdateReturn(u, "failed")
    /\ UNCHANGED <<now, last_update_check, luc_lock, yt_dlp, rw_readers, rw_queue>>
    /\ UNCHANGED <<acq_vars, cfg_vars, fn_vars>>

\* lines 143-147: remove_dir_all("yt_dlp_exe") if it is a directory, then
\* create_dir_all. step = "remove": remove_dir_all fails; "create":
\* create_dir_all fails; "ok": neither
UpdateWipe(u, step) ==
    /\ upd_pc[u] = "wipe"
    /\ step \in {"remove", "create", "ok"}
    /\ step = "remove" => exe_dir.exists
    /\ exe_dir' = CASE step = "remove" -> exe_dir
                    [] step = "create" -> [exists |-> FALSE, files |-> <<>>]
                    [] step = "ok" -> [exists |-> TRUE, files |-> <<>>]
    /\ IF step = "ok"
       THEN /\ upd_pc' = [upd_pc EXCEPT ![u] = "fetch"]
            /\ UNCHANGED <<upd_release, upd_had_exe, rw_writer>>
       ELSE UpdateReturn(u, "failed")
    /\ UNCHANGED <<now, last_update_check, luc_lock, yt_dlp, rw_readers, rw_queue>>
    /\ UNCHANGED <<acq_vars, cfg_vars, fn_vars>>

\* lines 149-151: File::create, then the artifact is fetched and copied into
\* it. step = "create": File::create fails; "fetch": the download fails and
\* the file stays empty; "ok": the whole body is written
UpdateFetch(u, step) ==
    /\ upd_pc[u] = "fetch"
    /\ step \in {"create", "fetch", "ok"}
    /\ LET exe_path == ExePath(upd_release[u].tag_name)
           file(len) == [p \in {exe_path} |-> [len |-> len, exec |-> FALSE]]
       IN  exe_dir' = CASE step = "create" -> exe_dir
                        [] step = "fetch" -> [exe_dir EXCEPT !.files = file(0)]
                        [] step = "ok" -> [exe_dir EXCEPT !.files = file(upd_release[u].size)]
    /\ IF step = "ok"
       THEN /\ upd_pc' = [upd_pc EXCEPT ![u] = "chmod"]
            /\ UNCHANGED <<upd_release, upd_had_exe, rw_writer>>
       ELSE UpdateReturn(u, "failed")
    /\ UNCHANGED <<now, last_update_check, luc_lock, yt_dlp, rw_readers, rw_queue>>
    /\ UNCHANGED <<acq_vars, cfg_vars, fn_vars>>

\* lines 153-169 and 366: set_permissions(0o755), chmod +x, then
\* *yt_dlp = the new YtDlp. step = "set_permissions": it fails; "chmod": the
\* chmod process fails after set_permissions succeeded; "ok": neither
UpdateChmod(u, step) ==
    /\ upd_pc[u] = "chmod"
    /\ step \in {"set_permissions", "chmod", "ok"}
    /\ LET exe_path == ExePath(upd_release[u].tag_name)
       IN  /\ exe_dir' = IF step = "set_permissions" THEN exe_dir
                         ELSE [exe_dir EXCEPT !.files[exe_path].exec = TRUE]
           /\ IF step = "ok"
              THEN /\ yt_dlp' = [tag_name |-> upd_release[u].tag_name, exe_path |-> exe_path]
                   /\ UpdateReturn(u, "updated")
              ELSE /\ UpdateReturn(u, "failed")
                   /\ UNCHANGED yt_dlp
    /\ UNCHANGED <<now, last_update_check, luc_lock, rw_readers, rw_queue>>
    /\ UNCHANGED <<acq_vars, cfg_vars, fn_vars>>

(***************************************************************************)
(* Requests: the link-message handler (src/discord.rs) and the /download   *)
(* command (src/cmd.rs) call YtDlpDaemon::download, which runs the         *)
(* slideshow extractor (src/tiktok.rs) or YtDlp::download.                 *)
(***************************************************************************)
\* durations, in seconds, that the probe reports
Durations == {90, 91}

\* more durations, for the requests taken alone: the spec's example of 60 s,
\* the durations on both sides of the floor, a short and a long file
DurationsWide == Durations \cup {1, 60, 89, 92, 600}

\* calculate_bitrates with a decimal target of 10 * 1000 * 1000 bytes
BitrateTooLow_Decimal(secs) == 10 * 1000 * 1000 * 8 < (800 * 1000 + 128 * 1000) * secs

\* calculate_bitrates with the 10 MB target, lines 304-321, and the floor of
\* line 273: (10 * 1024 * 1024 * 8 / secs - 128000) / 1000 < 800, without the
\* division
BitrateTooLow(secs) == 10 * 1024 * 1024 * 8 < (800 * 1000 + 128 * 1000) * secs

\* line 277: format!("{video_bitrate_kbps:.0}k"): the video bitrate in kbit/s,
\* (10 * 1024 * 1024 * 8 / secs - 128000) / 1000, rounded to the nearest integer
VideoBitrateArg(secs) ==
    (2 * (10 * 1024 * 1024 * 8 - 128 * 1000 * secs) + 1000 * secs) \div (2 * 1000 * secs)

\* lines 269-280: the rate options of the ffmpeg command: the two bitrates in
\* kbit/s for a known duration, else the constant quality "-crf 23"
FfmpegArgs(duration) ==
    IF duration = None
    THEN [crf |-> 23]
    ELSE [b_v |-> VideoBitrateArg(duration[1]), b_a |-> 128]

\* lines 247-258: the url of the media, read from the JSON that yt-dlp
\* printed; None when the output is no such JSON
DumpUrls == {None, Some("url")}

\* Result<DownloadedMedia, anyhow::Error>: the media's file, or the error
Ok(file) == [ok |-> TRUE, val |-> file]

Err(err) == [ok |-> FALSE, val |-> err]

NoResult == [ok |-> FALSE, val |-> "none"]

\* the re-encoded path without the stem of the input path: one name for all
OutFile_NoStem(a, file) ==
    IF file = "reencoded"
    THEN [req |-> "m1", attempt |-> 1, file |-> file]
    ELSE [req |-> a, attempt |-> acq_attempt[a], file |-> file]

\* yt_dlp_out/{uuid}.mp4 and yt_dlp_out/{uuid}_reencoded.mp4: every call draws
\* a fresh uuid, which the model names by request and attempt
OutFile(a, file) == [req |-> a, attempt |-> acq_attempt[a], file |-> file]

\* YtDlpDaemon::new, lines 341-343: yt_dlp_out is removed at start
InitRequests ==
    /\ acq_pc = [a \in Acquirers |-> "idle"]
    /\ acq_attempt = [a \in Acquirers |-> 0]
    /\ acq_probe = [a \in Acquirers |-> "none"]
    /\ acq_duration = [a \in Acquirers |-> None]
    /\ acq_reencode = [a \in Acquirers |-> None]
    /\ acq_url = [a \in Acquirers |-> None]
    /\ acq_result = [a \in Acquirers |-> NoResult]
    /\ out_dir = {}
    /\ deleting = {}

InitDaemon == InitUpdater /\ InitRequests

\* YtDlpDaemon::download returns `result`; every guard it holds is dropped
DownloadReturn(a, result) ==
    /\ acq_pc' = [acq_pc EXCEPT ![a] = "returned"]
    /\ acq_result' = [acq_result EXCEPT ![a] = result]
    /\ rw_readers' = rw_readers \ {a}

\* discord.rs line 80 (first pass of the loop) and cmd.rs line 53: a request
\* arrives and its handler calls download
Request(a) ==
    /\ acq_pc[a] = "idle"
    /\ acq_pc' = [acq_pc EXCEPT ![a] = "download"]
    /\ acq_attempt' = [acq_attempt EXCEPT ![a] = 1]
    /\ UNCHANGED <<acq_probe, acq_duration, acq_reencode, acq_url, acq_result, out_dir, deleting>>
    /\ UNCHANGED <<upd_vars, cfg_vars, fn_vars>>

\* YtDlpDaemon::download, lines 374-401: the uuid path, create_dir_all, the
\* HEAD request (whose failure falls back to the given url), and the test for
\* a slideshow post. create_ok = FALSE: create_dir_all fails.
DownloadBegin(a, create_ok, photo) ==
    /\ acq_pc[a] = "download"
    /\ IF ~create_ok
       THEN DownloadReturn(a, Err("create_dir_all"))
       ELSE /\ acq_pc' = [acq_pc EXCEPT ![a] = IF photo THEN "slideshow" ELSE "update_check"]
            /\ UNCHANGED <<acq_result, rw_readers>>
    /\ UNCHANGED <<acq_attempt, acq_probe, acq_duration, acq_reencode, acq_url, out_dir, deleting>>
    /\ UNCHANGED <<now, last_update_check, luc_lock, yt_dlp, rw_writer, rw_queue, exe_dir,
                   upd_pc, upd_release, upd_had_exe>>
    /\ UNCHANGED <<cfg_vars, fn_vars>>

\* a slideshow media that carries the resolved url
Slideshow_WithUrl(a, step, created) ==
    /\ acq_pc[a] = "slideshow"
    /\ step \in {"early", "ffmpeg", "ok"}
    /\ step = "early" => ~created
    /\ out_dir' = IF created THEN out_dir \cup {OutFile(a, "mp4")} ELSE out_dir
    /\ DownloadReturn(a, CASE step = "early" -> Err("slideshow")
                           [] step = "ffmpeg" -> Err("slideshow ffmpeg")
                           [] step = "ok" -> IF created THEN Ok("mp4")
                                             ELSE Err("slideshow file was not created"))
    /\ acq_url' = [acq_url EXCEPT ![a] = IF step = "ok" /\ created THEN Some("url") ELSE None]
    /\ UNCHANGED <<acq_attempt, acq_probe, acq_duration, acq_reencode, deleting>>
    /\ UNCHANGED <<now, last_update_check, luc_lock, yt_dlp, rw_writer, rw_queue, exe_dir,
                   upd_pc, upd_release, upd_had_exe>>
    /\ UNCHANGED <<cfg_vars, fn_vars>>

\* tiktok.rs lines 12-80 and 109-172. step = "early": node, the API request or
\* the image list fails, or ffmpeg cannot be spawned; "ffmpeg": ffmpeg exits
\* with a failure, having written `created`; "ok": ffmpeg exits successfully,
\* and line 75 tests that the file is there
Slideshow(a, step, created) ==
    /\ acq_pc[a] = "slideshow"
    /\ step \in {"early", "ffmpeg", "ok"}
    /\ step = "early" => ~created
    /\ out_dir' = IF created THEN out_dir \cup {OutFile(a, "mp4")} ELSE out_dir
    /\ DownloadReturn(a, CASE step = "early" -> Err("slideshow")
                           [] step = "ffmpeg" -> Err("slideshow ffmpeg")
                           [] step = "ok" -> IF created THEN Ok("mp4")
                                             ELSE Err("slideshow file was not created"))
    /\ acq_url' = [acq_url EXCEPT ![a] = None]
    /\ UNCHANGED <<acq_attempt, acq_probe, acq_duration, acq_reencode, deleting>>
    /\ UNCHANGED <<now, last_update_check, luc_lock, yt_dlp, rw_writer, rw_queue, exe_dir,
                   upd_pc, upd_release, upd_had_exe>>
    /\ UNCHANGED <<cfg_vars, fn_vars>>

\* update tasks that have been spawned and have not returned
InFlight == {u \in Updaters : upd_pc[u] \in {"latest", "write_lock", "wipe", "fetch", "chmod"}}

\* update_check, lines 418-421, and line 414 when the check returns at once:
\* try_lock on last_update_check; held by another task, the check returns and
\* the call asks for the read lock
UpdateCheckTryLock(a) ==
    /\ acq_pc[a] = "update_check"
    /\ IF luc_lock = NoTask
       THEN /\ luc_lock' = a
            /\ acq_pc' = [acq_pc EXCEPT ![a] = "update_check_locked"]
            /\ UNCHANGED rw_queue
       ELSE /\ acq_pc' = [acq_pc EXCEPT ![a] = "read_lock"]
            /\ rw_queue' = Append(rw_queue, a)
            /\ UNCHANGED luc_lock
    /\ UNCHANGED <<acq_attempt, acq_probe, acq_duration, acq_reencode, acq_url, acq_result, out_dir, deleting>>
    /\ UNCHANGED <<now, last_update_check, yt_dlp, rw_writer, rw_readers, exe_dir,
                   upd_pc, upd_release, upd_had_exe>>
    /\ UNCHANGED <<cfg_vars, fn_vars>>

\* update_check without the reset of line 424
UpdateCheckLocked_NoReset(a) ==
    /\ acq_pc[a] = "update_check_locked"
    /\ luc_lock' = NoTask
    /\ IF now - last_update_check > YT_DLP_UPDATE_CHECK_INTERVAL
       THEN /\ Updaters \ InFlight # {}
            /\ UNCHANGED last_update_check
            /\ LET u == CHOOSE u \in Updaters \ InFlight : TRUE
               IN  upd_pc' = [upd_pc EXCEPT ![u] = "latest"]
       ELSE UNCHANGED <<last_update_check, upd_pc>>
    /\ acq_pc' = [acq_pc EXCEPT ![a] = "read_lock"]
    /\ rw_queue' = Append(rw_queue, a)
    /\ UNCHANGED <<acq_attempt, acq_probe, acq_duration, acq_reencode, acq_url, acq_result, out_dir, deleting>>
    /\ UNCHANGED <<now, yt_dlp, rw_writer, rw_readers, exe_dir, upd_release, upd_had_exe>>
    /\ UNCHANGED <<cfg_vars, fn_vars>>

\* update_check, lines 423-433, then line 414: with more than the interval
\* elapsed, the timestamp is reset and update() is spawned; the guard is dropped
\* when update_check returns; the call asks for the read lock
UpdateCheckLocked(a) ==
    /\ acq_pc[a] = "update_check_locked"
    /\ luc_lock' = NoTask
    /\ IF now - last_update_check > YT_DLP_UPDATE_CHECK_INTERVAL
       THEN /\ Updaters \ InFlight # {}
            /\ last_update_check' = now
            /\ LET u == CHOOSE u \in Updaters \ InFlight : TRUE
               IN  upd_pc' = [upd_pc EXCEPT ![u] = "latest"]
       ELSE UNCHANGED <<last_update_check, upd_pc>>
    /\ acq_pc' = [acq_pc EXCEPT ![a] = "read_lock"]
    /\ rw_queue' = Append(rw_queue, a)
    /\ UNCHANGED <<acq_attempt, acq_probe, acq_duration, acq_reencode, acq_url, acq_result, out_dir, deleting>>
    /\ UNCHANGED <<now, yt_dlp, rw_writer, rw_readers, exe_dir, upd_release, upd_had_exe>>
    /\ UNCHANGED <<cfg_vars, fn_vars>>

\* line 414: the read guard is granted; it lives until YtDlp::download returns
ReadLock(a) ==
    /\ acq_pc[a] = "read_lock"
    /\ CanRead(a)
    /\ rw_queue' = Tail(rw_queue)
    /\ rw_readers' = rw_readers \cup {a}
    /\ acq_pc' = [acq_pc EXCEPT ![a] = "extract"]
    /\ UNCHANGED <<acq_attempt, acq_probe, acq_duration, acq_reencode, acq_url, acq_result, out_dir, deleting>>
    /\ UNCHANGED <<now, last_update_check, luc_lock, yt_dlp, rw_writer, exe_dir,
                   upd_pc, upd_release, upd_had_exe>>
    /\ UNCHANGED <<cfg_vars, fn_vars>>

\* YtDlp::download, lines 175-199: the served executable is launched with the
\* output path. It cannot be spawned when no runnable file is at exe_path.
\* status_ok: the exit status; created: yt-dlp left a file at the output path.
Extract(a, status_ok, created) ==
    /\ acq_pc[a] = "extract"
    /\ IF ~ServedRunnable(exe_dir, yt_dlp)
       THEN /\ ~status_ok /\ ~created
            /\ DownloadReturn(a, Err("spawn"))
            /\ UNCHANGED out_dir
       ELSE /\ out_dir' = IF created THEN out_dir \cup {OutFile(a, "mp4")} ELSE out_dir
            /\ IF ~status_ok
               THEN DownloadReturn(a, Err("exit status"))
               ELSE IF ~created
               THEN DownloadReturn(a, Err("yt-dlp did not create the file"))
               ELSE /\ acq_pc' = [acq_pc EXCEPT ![a] = "probe"]
                    /\ UNCHANGED <<acq_result, rw_readers>>
    /\ UNCHANGED <<acq_attempt, acq_probe, acq_duration, acq_reencode, acq_url, deleting>>
    /\ UNCHANGED <<now, last_update_check, luc_lock, yt_dlp, rw_writer, rw_queue, exe_dir,
                   upd_pc, upd_release, upd_had_exe>>
    /\ UNCHANGED <<cfg_vars, fn_vars>>

\* the match of lines 203-214 with a duration carried by Corrupt as well
Probe_CorruptHasDuration(a, probe, secs) ==
    /\ acq_pc[a] = "probe"
    /\ probe \in {"err", "corrupt", "compatible", "incompatible"}
    /\ acq_probe' = [acq_probe EXCEPT ![a] = probe]
    /\ acq_duration' = [acq_duration EXCEPT ![a] =
                          IF probe \in {"incompatible", "corrupt"} THEN Some(secs) ELSE None]
    /\ CASE probe = "err" -> DownloadReturn(a, Err("probe"))
         [] probe = "compatible" -> DownloadReturn(a, Ok("mp4"))
         [] OTHER ->
              /\ acq_pc' = [acq_pc EXCEPT ![a] = "reencode"]
              /\ UNCHANGED <<acq_result, rw_readers>>
    /\ IF probe = "compatible"
       THEN \E url \in DumpUrls : acq_url' = [acq_url EXCEPT ![a] = url]
       ELSE UNCHANGED acq_url
    /\ UNCHANGED <<acq_attempt, acq_reencode, out_dir, deleting>>
    /\ UNCHANGED <<now, last_update_check, luc_lock, yt_dlp, rw_writer, rw_queue, exe_dir,
                   upd_pc, upd_release, upd_had_exe>>
    /\ UNCHANGED <<cfg_vars, fn_vars>>

\* lines 203-216: MediaProbe::get(out_path).await? and the match on it.
\* probe = "err": the probe returns Err; "corrupt": Corrupt; "compatible" and
\* "incompatible": Probed with that flag and duration `secs`
Probe(a, probe, secs) ==
    /\ acq_pc[a] = "probe"
    /\ probe \in {"err", "corrupt", "compatible", "incompatible"}
    /\ acq_probe' = [acq_probe EXCEPT ![a] = probe]
    /\ acq_duration' = [acq_duration EXCEPT ![a] =
                          IF probe = "incompatible" THEN Some(secs) ELSE None]
    /\ CASE probe = "err" -> DownloadReturn(a, Err("probe"))
         [] probe = "compatible" -> DownloadReturn(a, Ok("mp4"))
         [] OTHER ->
              /\ acq_pc' = [acq_pc EXCEPT ![a] = "reencode"]
              /\ UNCHANGED <<acq_result, rw_readers>>
    /\ IF probe = "compatible"
       THEN \E url \in DumpUrls : acq_url' = [acq_url EXCEPT ![a] = url]
       ELSE UNCHANGED acq_url
    /\ UNCHANGED <<acq_attempt, acq_reencode, out_dir, deleting>>
    /\ UNCHANGED <<now, last_update_check, luc_lock, yt_dlp, rw_writer, rw_queue, exe_dir,
                   upd_pc, upd_release, upd_had_exe>>
    /\ UNCHANGED <<cfg_vars, fn_vars>>

\* reencode_video without the floor of lines 273-275
ReencodeOutcomes_NoFloor(duration) ==
    {"spawn", "exit", "exit_partial", "ok", "ok_keep", "panic_remove", "panic_assert"}

\* what reencode_video and the code after it (lines 218-245, 263-302) can do.
\* "too_low": BitrateTooLow; "spawn": ffmpeg cannot be spawned; "exit":
\* ffmpeg fails or leaves no output; "exit_partial": ffmpeg fails with output
\* written; "ok": the output is there and the original is removed; "ok_keep":
\* remove_file fails and is logged (release build); "panic_remove":
\* remove_file fails (debug build); "panic_assert": the probe of the output
\* does not report a compatible file (debug build)
ReencodeOutcomes(duration) ==
    IF duration # None /\ BitrateTooLow(duration[1])
    THEN {"too_low"}
    ELSE {"spawn", "exit", "exit_partial", "ok", "ok_keep", "panic_remove", "panic_assert"}

\* reencode_video without the remove_file of line 285
DirAfterReencode_KeepOriginal(a, step) ==
    CASE step \in {"too_low", "spawn", "exit"} -> out_dir
      [] OTHER -> out_dir \cup {OutFile(a, "reencoded")}

\* lines 282-291: yt_dlp_out after ffmpeg ran (or did not) and, when it
\* succeeded with its output there, after remove_file on the original
DirAfterReencode(a, step) ==
    CASE step \in {"too_low", "spawn", "exit"} -> out_dir
      [] step \in {"exit_partial", "ok_keep", "panic_remove"} ->
           out_dir \cup {OutFile(a, "reencoded")}
      [] step \in {"ok", "panic_assert"} ->
           (out_dir \cup {OutFile(a, "reencoded")}) \ {OutFile(a, "mp4")}

\* lines 218-260: reencode_video, then Ok(DownloadedMedia) over the re-encoded
\* file, or over the original when re-encoding failed or was skipped
Reencode(a, step) ==
    /\ acq_pc[a] = "reencode"
    /\ step \in ReencodeOutcomes(acq_duration[a])
    /\ out_dir' = DirAfterReencode(a, step)
    /\ IF step \in {"panic_remove", "panic_assert"}
       THEN /\ acq_pc' = [acq_pc EXCEPT ![a] = "finished"]
            /\ acq_duration' = [acq_duration EXCEPT ![a] = None]
            /\ acq_reencode' = [acq_reencode EXCEPT ![a] = None]
            /\ UNCHANGED acq_url
            /\ rw_readers' = rw_readers \ {a}
            /\ acq_attempt' = [acq_attempt EXCEPT ![a] = 0]
            /\ acq_probe' = [acq_probe EXCEPT ![a] = "none"]
            /\ UNCHANGED acq_result
       ELSE /\ acq_reencode' = [acq_reencode EXCEPT ![a] =
                                  Some([cmd |-> IF step = "too_low" THEN None
                                                ELSE Some(FfmpegArgs(acq_duration[a])),
                                        step |-> step])]
            /\ DownloadReturn(a, Ok(IF step \in {"ok", "ok_keep"} THEN "reencoded" ELSE "mp4"))
            /\ \E url \in DumpUrls : acq_url' = [acq_url EXCEPT ![a] = url]
            /\ UNCHANGED <<acq_attempt, acq_probe, acq_duration>>
    /\ UNCHANGED deleting
    /\ UNCHANGED <<now, last_update_check, luc_lock, yt_dlp, rw_writer, rw_queue, exe_dir,
                   upd_pc, upd_release, upd_had_exe>>
    /\ UNCHANGED <<cfg_vars, fn_vars>>

\* the request is over: the handler's locals die
Finish(a) ==
    /\ acq_pc' = [acq_pc EXCEPT ![a] = "finished"]
    /\ acq_attempt' = [acq_attempt EXCEPT ![a] = 0]
    /\ acq_probe' = [acq_probe EXCEPT ![a] = "none"]
    /\ acq_duration' = [acq_duration EXCEPT ![a] = None]
    /\ acq_reencode' = [acq_reencode EXCEPT ![a] = None]
    /\ acq_url' = [acq_url EXCEPT ![a] = None]
    /\ acq_result' = [acq_result EXCEPT ![a] = NoResult]

\* the loop of discord.rs lines 79-85 without the break on Ok
Retry_AnyResult(a) ==
    /\ acq_pc[a] = "returned"
    /\ a \in Messages
    /\ acq_attempt[a] < 2
    /\ acq_pc' = [acq_pc EXCEPT ![a] = "download"]
    /\ acq_attempt' = [acq_attempt EXCEPT ![a] = acq_attempt[a] + 1]
    /\ acq_probe' = [acq_probe EXCEPT ![a] = "none"]
    /\ acq_duration' = [acq_duration EXCEPT ![a] = None]
    /\ acq_reencode' = [acq_reencode EXCEPT ![a] = None]
    /\ acq_url' = [acq_url EXCEPT ![a] = None]
    /\ acq_result' = [acq_result EXCEPT ![a] = NoResult]
    /\ UNCHANGED <<out_dir, deleting>>
    /\ UNCHANGED <<upd_vars, cfg_vars, fn_vars>>

\* discord.rs lines 79-85: `for _ in 0..2`, leaving the loop on Ok; the
\* second pass calls download again
Retry(a) ==
    /\ acq_pc[a] = "returned"
    /\ a \in Messages
    /\ ~acq_result[a].ok
    /\ acq_attempt[a] < 2
    /\ acq_pc' = [acq_pc EXCEPT ![a] = "download"]
    /\ acq_attempt' = [acq_attempt EXCEPT ![a] = acq_attempt[a] + 1]
    /\ acq_probe' = [acq_probe EXCEPT ![a] = "none"]
    /\ acq_duration' = [acq_duration EXCEPT ![a] = None]
    /\ acq_reencode' = [acq_reencode EXCEPT ![a] = None]
    /\ acq_url' = [acq_url EXCEPT ![a] = None]
    /\ acq_result' = [acq_result EXCEPT ![a] = NoResult]
    /\ UNCHANGED <<out_dir, deleting>>
    /\ UNCHANGED <<upd_vars, cfg_vars, fn_vars>>

\* discord.rs lines 87-93 and cmd.rs lines 53-60: the error is logged or
\* reported and the handler returns
GiveUp(a) ==
    /\ acq_pc[a] = "returned"
    /\ ~acq_result[a].ok
    /\ a \in Messages => acq_attempt[a] >= 2
    /\ Finish(a)
    /\ UNCHANGED <<out_dir, deleting>>
    /\ UNCHANGED <<upd_vars, cfg_vars, fn_vars>>

\* the handler is done with the media; DownloadedMedia::drop, lines 440-451,
\* spawns a task that removes the file at media.path
MediaDrop(a) ==
    /\ acq_pc[a] = "returned"
    /\ acq_result[a].ok
    /\ deleting' = deleting \cup {OutFile(a, acq_result[a].val)}
    /\ Finish(a)
    /\ UNCHANGED out_dir
    /\ UNCHANGED <<upd_vars, cfg_vars, fn_vars>>

\* line 446: the spawned task runs remove_file
RemoveFile(f) ==
    /\ f \in deleting
    /\ deleting' = deleting \ {f}
    /\ out_dir' = out_dir \ {f}
    /\ UNCHANGED <<acq_pc, acq_attempt, acq_probe, acq_duration, acq_reencode, acq_url, acq_result>>
    /\ UNCHANGED <<upd_vars, cfg_vars, fn_vars>>

(***************************************************************************)
(* MediaProbe::get (src/ffprobe.rs). A text is a sequence of tokens, as    *)
(* for the config file; the process prints JSON on stdout and its          *)
(* complaints, one per line, on either stream.                             *)
(***************************************************************************)
\* bounds
\* streams of a probed file
MaxStreams == 2

\* discord.rs line 14, in bytes
DISCORD_FILE_SIZE_LIMIT == 10 * 1024 * 1024

\* the needle of line 38
PACKET_CORRUPT == "Packet corrupt"

LineTok(text) == [t |-> "line", text |-> text]

StreamsTok(streams) == [t |-> "streams", streams |-> streams]

FormatTok(duration) == [t |-> "format", duration |-> duration]

\* what `-show_entries stream=codec_type,codec_name -show_entries
\* format=duration -of json` prints, lines 17-27
ShowEntriesJson(streams, duration) ==
    <<OpenTok, StreamsTok(streams), FormatTok(duration), CloseTok>>

\* str::contains
Contains(text, needle) ==
    \E i \in DOMAIN text : text[i].t = "line" /\ text[i].text = needle

\* serde_json::from_str::<FFProbeOutput>, lines 51 and 73-88: one JSON object
\* with both fields, nothing after it
FFProbeOutputFromStr(stdout) ==
    IF /\ Len(stdout) = 4
       /\ stdout[1] = OpenTok
       /\ stdout[2].t = "streams"
       /\ stdout[3].t = "format"
       /\ stdout[4] = CloseTok
    THEN [ok |-> TRUE,
          value |-> [streams |-> stdout[2].streams,
                     format |-> [duration |-> stdout[3].duration]]]
    ELSE [ok |-> FALSE]

Digit ==
    ("0" :> 0) @@ ("1" :> 1) @@ ("2" :> 2) @@ ("3" :> 3) @@ ("4" :> 4) @@
    ("5" :> 5) @@ ("6" :> 6) @@ ("7" :> 7) @@ ("8" :> 8) @@ ("9" :> 9)

RECURSIVE ParseDigits(_)
ParseDigits(str) ==
    IF str = <<>> THEN 0
    ELSE 10 * ParseDigits(SubSeq(str, 1, Len(str) - 1)) + Digit[str[Len(str)]]

\* str::parse::<f64>, line 68, for whole numbers of seconds: an optional
\* sign, then digits
ParseF64(str) ==
    LET negative == str # <<>> /\ str[1] = "-"
        digits == IF negative THEN Tail(str) ELSE str
    IN  IF digits = <<>> \/ \E i \in DOMAIN digits : digits[i] \notin DOMAIN Digit
        THEN None
        ELSE Some(IF negative THEN -ParseDigits(digits) ELSE ParseDigits(digits))

\* enum MediaProbe, lines 9-12
Corrupt == [kind |-> "Corrupt"]

Probed(is_discord_compatible, duration) ==
    [kind |-> "Probed", is_discord_compatible |-> is_discord_compatible, duration |-> duration]

\* Duration::from_secs_f64 panics on a negative number, line 68
Panicked == [ok |-> FALSE, val |-> "panicked"]

\* the size test of line 53 with the limit included
IsDiscordCompatible_AtLimit(len, streams) ==
    /\ len <= DISCORD_FILE_SIZE_LIMIT
    /\ \E i \in DOMAIN streams : streams[i].codec_type = "video"
    /\ \A i \in DOMAIN streams :
          \/ streams[i].codec_type = "video" /\ streams[i].codec_name = "h264"
          \/ streams[i].codec_type = "audio" /\ streams[i].codec_name = "aac"

\* lines 53-60
IsDiscordCompatible(len, streams) ==
    /\ len < DISCORD_FILE_SIZE_LIMIT
    /\ \E i \in DOMAIN streams : streams[i].codec_type = "video"
    /\ \A i \in DOMAIN streams :
          \/ streams[i].codec_type = "video" /\ streams[i].codec_name = "h264"
          \/ streams[i].codec_type = "audio" /\ streams[i].codec_name = "aac"

\* MediaProbe::get with the exit status tested before the needle is looked for
MediaProbeGet_StatusFirst(run) ==
    IF run.metadata = None THEN Err("metadata")
    ELSE IF ~run.spawned THEN Err("spawn")
    ELSE IF ~run.status_ok THEN Err("exit status")
    ELSE IF Contains(run.stderr, PACKET_CORRUPT) \/ Contains(run.stdout, PACKET_CORRUPT)
    THEN Ok(Corrupt)
    ELSE LET output == FFProbeOutputFromStr(run.stdout)
         IN  IF ~output.ok THEN Err("Failed to parse ffprobe output")
             ELSE LET secs == ParseF64(output.value.format.duration)
                  IN  IF secs = None THEN Err("Failed to parse duration")
                      ELSE IF secs[1] < 0 THEN Panicked
                      ELSE Ok(Probed(IsDiscordCompatible(run.metadata[1], output.value.streams),
                                     secs[1]))

\* MediaProbe::get, lines 14-70. run.metadata: None when fs::metadata fails,
\* else Some(the file's length); run.spawned: the process could be run
MediaProbeGet(run) ==
    IF run.metadata = None THEN Err("metadata")
    ELSE IF ~run.spawned THEN Err("spawn")
    ELSE IF Contains(run.stderr, PACKET_CORRUPT) \/ Contains(run.stdout, PACKET_CORRUPT)
    THEN Ok(Corrupt)
    ELSE IF ~run.status_ok THEN Err("exit status")
    ELSE LET output == FFProbeOutputFromStr(run.stdout)
         IN  IF ~output.ok THEN Err("Failed to parse ffprobe output")
             ELSE LET secs == ParseF64(output.value.format.duration)
                  IN  IF secs = None THEN Err("Failed to parse duration")
                      ELSE IF secs[1] < 0 THEN Panicked
                      ELSE Ok(Probed(IsDiscordCompatible(run.metadata[1], output.value.streams),
                                     secs[1]))

\* the streams ffprobe reports: the accepted pairs, and other types and codecs
StreamKinds == [codec_type : {"video", "audio", "subtitle"}, codec_name : {"h264", "aac", "hevc"}]

StreamLists == UNION {[1..n -> StreamKinds] : n \in 0..MaxStreams}

\* format.duration as ffprobe prints it; "N/A" for a format without one
DurationStrings == {<<"9", "0">>, <<"6", "0", "0">>, <<"N", "/", "A">>, <<"-", "1">>}

VideoH264 == [codec_type |-> "video", codec_name |-> "h264"]

AudioAac == [codec_type |-> "audio", codec_name |-> "aac"]

\* stdout: the JSON of a compatible file, the same followed by a complaint,
\* cut short, nothing at all, or only the complaint
StdoutSamples ==
    UNION {{ShowEntriesJson(<<VideoH264, AudioAac>>, d),
            ShowEntriesJson(<<VideoH264, AudioAac>>, d) \o <<LineTok(PACKET_CORRUPT)>>,
            SubSeq(ShowEntriesJson(<<VideoH264, AudioAac>>, d), 1, 2)} : d \in DurationStrings}
    \cup {<<>>, <<LineTok(PACKET_CORRUPT)>>, <<LineTok("Invalid data found")>>}

StderrSamples ==
    {<<>>, <<LineTok("Invalid data found")>>,
     <<LineTok("Invalid data found"), LineTok(PACKET_CORRUPT)>>}

\* runs that differ in how the process ended and in what it printed
ClassificationRuns ==
    [metadata : {None, Some(DISCORD_FILE_SIZE_LIMIT - 1)},
     spawned : BOOLEAN,
     status_ok : BOOLEAN,
     stdout : StdoutSamples,
     stderr : StderrSamples]

\* successful runs that differ in the file's size and streams
CompatibilityRuns ==
    [metadata : {Some(DISCORD_FILE_SIZE_LIMIT - 1), Some(DISCORD_FILE_SIZE_LIMIT),
                 Some(DISCORD_FILE_SIZE_LIMIT + 1)},
     spawned : {TRUE},
     status_ok : {TRUE},
     stdout : {ShowEntriesJson(streams, <<"9", "0">>) : streams \in StreamLists},
     stderr : {<<>>}]

FfprobeRuns == ClassificationRuns \cup CompatibilityRuns

NoRun == [metadata |-> None, spawned |-> FALSE, status_ok |-> FALSE, stdout |-> <<>>, stderr |-> <<>>]

\* a call of MediaProbe::get on the file and process of ffprobe_run
MediaProbeGetCall ==
    /\ media_probe = None
    /\ media_probe' = Some(MediaProbeGet(ffprobe_run))
    /\ UNCHANGED <<ffprobe_run, releases, latest, api_data, slideshow, message_in, message_out>>
    /\ UNCHANGED <<cfg_vars, dae_vars>>

(***************************************************************************)
(* YtDlpRelease::latest (src/yt_dlp.rs) over the feed that                 *)
(* github::Releases::get returns (src/github.rs).                          *)
(***************************************************************************)
\* bounds
\* releases in the feed
MaxReleases == 2

\* YT_DLP_EXE, lines 16-29, on x86_64 Linux
YT_DLP_EXE == "yt-dlp_linux"

\* the tag of the i-th release of the feed, the newest first
FeedTag(i) == <<CHOOSE c \in DOMAIN Digit : Digit[c] = 9 - i, ".", "0">>

\* github::Asset, the executable of this platform in the i-th release
ExeAsset(i) ==
    [name |-> YT_DLP_EXE, browser_download_url |-> <<"download", FeedTag(i), YT_DLP_EXE>>,
     size |-> 100 + i]

\* the executable of another platform
OtherAsset(i) ==
    [name |-> "yt-dlp.exe", browser_download_url |-> <<"download", FeedTag(i), "yt-dlp.exe">>,
     size |-> 200 + i]

\* github::Release: assets is a BTreeSet ordered by name, so names are unique
FeedReleases(i) ==
    [tag_name : {FeedTag(i)},
     assets : SUBSET {ExeAsset(i), OtherAsset(i)},
     prerelease : BOOLEAN,
     draft : BOOLEAN]

\* the feeds of n releases
FeedsOfLen(n) == {feed \in [1..n -> UNION {FeedReleases(i) : i \in 1..n}] :
                    \A i \in 1..n : feed[i] \in FeedReleases(i)}

\* Result<Releases, anyhow::Error>: the request or the parse fails, or a feed
Fetches == {Err("get")} \cup {Ok(feed) : feed \in UNION {FeedsOfLen(n) : n \in 0..MaxReleases}}

\* lines 66-72: find_map over the assets
FindAsset(assets) ==
    IF \E asset \in assets : asset.name = YT_DLP_EXE
    THEN LET asset == CHOOSE asset \in assets : asset.name = YT_DLP_EXE
         IN  Some([browser_download_url |-> asset.browser_download_url, size |-> asset.size])
    ELSE None

\* find_map over the releases where `?` on a stable release without the
\* asset ends the search
RECURSIVE FindRelease_StopAtStable(_)
FindRelease_StopAtStable(feed) ==
    IF feed = <<>> THEN None
    ELSE LET release == Head(feed)
         IN  IF ~release.draft /\ ~release.prerelease
             THEN LET asset == FindAsset(release.assets)
                  IN  IF asset = None THEN None
                      ELSE Some([tag_name |-> release.tag_name,
                                 browser_download_url |-> asset[1].browser_download_url,
                                 size |-> asset[1].size])
             ELSE FindRelease_StopAtStable(Tail(feed))

\* lines 61-77: find_map over the releases; `?` inside the closure makes the
\* closure return None for a stable release without the asset
RECURSIVE FindRelease(_)
FindRelease(feed) ==
    IF feed = <<>> THEN None
    ELSE LET release == Head(feed)
         IN  IF ~release.draft /\ ~release.prerelease
             THEN LET asset == FindAsset(release.assets)
                  IN  IF asset = None THEN FindRelease(Tail(feed))
                      ELSE Some([tag_name |-> release.tag_name,
                                 browser_download_url |-> asset[1].browser_download_url,
                                 size |-> asset[1].size])
             ELSE FindRelease(Tail(feed))

\* YtDlpRelease::latest, lines 54-86
YtDlpReleaseLatest(fetched) ==
    IF ~fetched.ok THEN Err("get")
    ELSE LET found == FindRelease(fetched.val)
         IN  IF found = None THEN Err("No release found") ELSE Ok(found[1])

\* a call of YtDlpRelease::latest that is served the feed `releases`
YtDlpReleaseLatestCall ==
    /\ latest = None
    /\ latest' = Some(YtDlpReleaseLatest(releases))
    /\ UNCHANGED <<ffprobe_run, media_probe, releases, api_data, slideshow, message_in,
                   message_out>>
    /\ UNCHANGED <<cfg_vars, dae_vars>>

(***************************************************************************)
(* extract_slideshow_images and generate_slideshow_video (src/tiktok.rs),  *)
(* from the JSON of the item-detail API to the ffmpeg command.             *)
(***************************************************************************)
\* bounds
\* entries of imagePost.images
MaxImages == 2

\* an entry of imagePost.images: each field present with a usable value, or
\* missing or of another JSON type
ImageEntries ==
    [imageWidth : {None, Some(720), Some(1080)},
     imageHeight : {None, Some(1280), Some(1920)},
     imageURL : {None, Some("a"), Some("b")}]

\* the responses: itemInfo.itemStruct.imagePost.images missing or an array;
\* itemInfo.itemStruct.music.playUrl missing or a string
ApiResponses ==
    [images : {None} \cup {Some(list) : list \in UNION {[1..n -> ImageEntries] : n \in 0..MaxImages}},
     music : {None, Some("playUrl")}]

NoResponse == [images |-> None, music |-> None]

\* lines 56-62: filter_map keeps the entries with width, height and URL
RECURSIVE FilterMapImages(_)
FilterMapImages(list) ==
    IF list = <<>> THEN <<>>
    ELSE LET image == Head(list)
         IN  IF image.imageWidth # None /\ image.imageHeight # None /\ image.imageURL # None
             THEN <<[width |-> image.imageWidth[1], height |-> image.imageHeight[1],
                     url |-> image.imageURL[1]]>> \o FilterMapImages(Tail(list))
             ELSE FilterMapImages(Tail(list))

Max(a, b) == IF a >= b THEN a ELSE b

\* the canvas taken from the first image alone
Canvas_First(images) ==
    IF images = <<>> THEN [w |-> 0, h |-> 0]
    ELSE [w |-> images[1].width, h |-> images[1].height]

\* line 110: fold((0, 0), |(w, h), image| (w.max(image.width), h.max(image.height)))
RECURSIVE Canvas(_)
Canvas(images) ==
    IF images = <<>> THEN [w |-> 0, h |-> 0]
    ELSE LET rest == Canvas(SubSeq(images, 1, Len(images) - 1))
             image == images[Len(images)]
         IN  [w |-> Max(rest.w, image.width), h |-> Max(rest.h, image.height)]

\* lines 149-156: the concat script written to ffmpeg's stdin: every image
\* for 2.5 s, then the last image once more with duration 0
ConcatScript(images) ==
    [i \in 1..(Len(images) + 1) |->
        IF i <= Len(images)
        THEN [file |-> images[i].url, duration |-> "2.5"]
        ELSE [file |-> images[Len(images)].url, duration |-> "0"]]

\* generate_slideshow_video, lines 109-145: the command that is spawned
SlideshowFfmpeg(images, music) ==
    [inputs |-> IF music = None THEN <<"-">> ELSE <<"-", music[1]>>,
     map |-> <<"0:v", "1:a">>,
     scale |-> Canvas(images),
     pad |-> Canvas(images),
     filter_complex |-> "[1:0] apad",
     stdin |-> ConcatScript(images)]

\* extract_slideshow_images, lines 53-73, up to the spawn of ffmpeg
SlideshowCommand(data) ==
    IF data.images = None THEN Err("Failed to extract images")
    ELSE LET images == FilterMapImages(data.images[1])
         IN  IF images = <<>> THEN Err("No images found")
             ELSE Ok(SlideshowFfmpeg(images, data.music))

\* a call of extract_slideshow_images that is served the response api_data
SlideshowCall ==
    /\ slideshow = None
    /\ slideshow' = Some(SlideshowCommand(api_data))
    /\ UNCHANGED <<ffprobe_run, media_probe, releases, latest, api_data, message_in, message_out>>
    /\ UNCHANGED <<cfg_vars, dae_vars>>

(***************************************************************************)
(* DiscordBot::generic_message (src/discord.rs): a message with one link,  *)
(* from the download to the reply.                                         *)
(***************************************************************************)
\* A link is a sequence of tokens, host then path. The rule's regex matched
\* the whole link, with the path as its capture group 1.
DownloadUrl == <<"host", "path">>

\* fixup templates: a token is a literal, "$0" (the whole match) or "$1"
FixupTemplates == {<<"$0">>, <<"host", "$1">>, <<"fxhost", "$1">>, <<"fxhost">>}

\* the rules that can have matched: without fixup, or with one of the templates
MatchedRules == {[fixup |-> None]} \cup {[fixup |-> Some(t)] : t \in FixupTemplates}

\* regex::Captures::expand on one token of the template
ExpandTok(tok, url) ==
    CASE tok = "$0" -> url
      [] tok = "$1" -> <<url[2]>>
      [] OTHER -> <<tok>>

RECURSIVE Expand(_, _)
\* regex::Captures::expand: the template with its references filled in
Expand(template, url) ==
    IF template = <<>> THEN <<>>
    ELSE ExpandTok(Head(template), url) \o Expand(Tail(template), url)

\* line 154: regex.replace(download_url, fixup): the match, here the whole
\* link, is replaced by the expanded template
RegexReplace(url, fixup) == Expand(fixup, url)

\* what the handler's calls can give: the download (after its retry), the
\* metadata of the file with its length, CreateAttachment::path, the
\* send_message of the file, and the send_message of the fixed-up link
MessageInputs ==
    [download_ok : BOOLEAN,
     metadata_ok : BOOLEAN,
     media_size : {DISCORD_FILE_SIZE_LIMIT, DISCORD_FILE_SIZE_LIMIT + 1},
     attachment_ok : BOOLEAN,
     send : {"ok", "payload_too_large", "other"},
     rule : MatchedRules,
     send_fixup : {"ok", "other"}]

NoMessage ==
    [download_ok |-> FALSE, metadata_ok |-> FALSE, media_size |-> 0, attachment_ok |-> FALSE,
     send |-> "none", rule |-> [fixup |-> None], send_fixup |-> "none"]

\* a rejection for size that is also taken when the upload fails otherwise
SizeRejected_AnyError(result) == result # "ok"

\* lines 142-152 and 175-181: Err(TooLarge), or Err(Other) over an HTTP
\* response with status 413
SizeRejected(result) == result \in {"too_large", "payload_too_large"}

\* lines 174-197: the reaction put on the message for the final result
Reaction(result) ==
    IF SizeRejected(result) THEN Some("pregnant_man")
    ELSE IF result = "other" THEN Some("x")
    ELSE None

\* what the handler did: the url it passed to yt_dlp.download, the
\* send_message calls it made, and the reaction it put on the message
Handled(sent, react) == [acquired |-> DownloadUrl, sent |-> sent, react |-> react]

\* generic_message from line 78 on
GenericMessage(in) ==
    IF ~in.download_ok THEN Handled(<<>>, None)
    ELSE IF ~in.metadata_ok THEN Handled(<<>>, Some("x"))
    ELSE IF in.media_size <= DISCORD_FILE_SIZE_LIMIT /\ ~in.attachment_ok THEN Handled(<<>>, Some("x"))
    ELSE LET upload == in.media_size <= DISCORD_FILE_SIZE_LIMIT
             result == IF upload THEN in.send ELSE "too_large"
             sent == IF upload THEN <<[file |-> TRUE, content |-> None]>> ELSE <<>>
             fixed_up == IF in.rule.fixup = None THEN None
                         ELSE Some(RegexReplace(DownloadUrl, in.rule.fixup[1]))
         IN  IF SizeRejected(result) /\ fixed_up # None /\ fixed_up[1] # DownloadUrl
             THEN Handled(Append(sent, [file |-> FALSE, content |-> fixed_up]),
                          Reaction(in.send_fixup))
             ELSE Handled(sent, Reaction(result))

\* a message with one link is handled, its calls giving message_in
GenericMessageCall ==
    /\ message_out = None
    /\ message_out' = Some(GenericMessage(message_in))
    /\ UNCHANGED <<ffprobe_run, media_probe, releases, latest, api_data, slideshow, message_in>>
    /\ UNCHANGED <<cfg_vars, dae_vars>>

\* no function has been given its input
InitFn ==
    /\ ffprobe_run = NoRun
    /\ media_probe = None
    /\ releases = Err("get")
    /\ latest = None
    /\ api_data = NoResponse
    /\ slideshow = None
    /\ message_in = NoMessage
    /\ message_out = None

\* ConfigDaemon::new and YtDlpDaemon::new have run
Init == InitConfig(0) /\ InitDaemon /\ InitFn

Next ==
    \/ \E e \in Editors, new \in EditInputs : EditValidate(e, new)
    \/ \E e \in Editors : EditLock(e)
    \/ \E e \in Editors, io_ok \in BOOLEAN : EditSetLen(e, io_ok)
    \/ \E e \in Editors, seek_ok \in BOOLEAN, written \in WrittenCounts : EditWrite(e, seek_ok, written)
    \/ \E r \in Readers, t \in Threads : GetFast(r, t)
    \/ \E r \in Readers, t \in Threads : GetLock(r, t)
    \/ \E r \in Readers : GetCheck(r)

Spec == Init /\ [][Next]_vars

\* The store two edits before the 16-bit counter wraps: WrapStart edits were
\* committed, the last of them the default config, and no worker has read yet.
WrapStart == U16_MAX - 1

InitWrap == InitConfig(WrapStart) /\ InitDaemon /\ InitFn

SpecWrap == InitWrap /\ [][Next]_vars

\* every OutFile a request can name
OutFiles == [req : Acquirers, attempt : 1..2, file : {"mp4", "reencoded"}]

NextDaemon ==
    \/ Tick
    \/ \E u \in Updaters, ok \in BOOLEAN, release \in Releases : UpdateLatest(u, ok, release)
    \/ \E u \in Updaters : UpdateWriteLock(u)
    \/ \E u \in Updaters, step \in {"remove", "create", "ok"} : UpdateWipe(u, step)
    \/ \E u \in Updaters, step \in {"create", "fetch", "ok"} : UpdateFetch(u, step)
    \/ \E u \in Updaters, step \in {"set_permissions", "chmod", "ok"} : UpdateChmod(u, step)
    \/ \E a \in Acquirers : Request(a)
    \/ \E a \in Acquirers, create_ok \in BOOLEAN, photo \in BOOLEAN : DownloadBegin(a, create_ok, photo)
    \/ \E a \in Acquirers, step \in {"early", "ffmpeg", "ok"}, created \in BOOLEAN : Slideshow(a, step, created)
    \/ \E a \in Acquirers : UpdateCheckTryLock(a)
    \/ \E a \in Acquirers : UpdateCheckLocked(a)
    \/ \E a \in Acquirers : ReadLock(a)
    \/ \E a \in Acquirers, status_ok \in BOOLEAN, created \in BOOLEAN : Extract(a, status_ok, created)
    \/ \E a \in Acquirers, probe \in {"err", "corrupt", "compatible", "incompatible"}, secs \in Durations :
           Probe(a, probe, secs)
    \/ \E a \in Acquirers : \E step \in ReencodeOutcomes(acq_duration[a]) : Reencode(a, step)
    \/ \E a \in Acquirers : Retry(a)
    \/ \E a \in Acquirers : GiveUp(a)
    \/ \E a \in Acquirers : MediaDrop(a)
    \/ \E f \in OutFiles : RemoveFile(f)

\* the manager and the requests, the config store left alone
SpecDaemon == Init /\ [][NextDaemon]_vars

\* the requests alone: less than an update-check interval passes, so that no
\* update_check spawns update()
NextRequests ==
    \/ \E a \in Acquirers : Request(a)
    \/ \E a \in Acquirers, create_ok \in BOOLEAN, photo \in BOOLEAN : DownloadBegin(a, create_ok, photo)
    \/ \E a \in Acquirers, step \in {"early", "ffmpeg", "ok"}, created \in BOOLEAN : Slideshow(a, step, created)
    \/ \E a \in Acquirers : UpdateCheckTryLock(a)
    \/ \E a \in Acquirers : UpdateCheckLocked(a)
    \/ \E a \in Acquirers : ReadLock(a)
    \/ \E a \in Acquirers, status_ok \in BOOLEAN, created \in BOOLEAN : Extract(a, status_ok, created)
    \/ \E a \in Acquirers, probe \in {"err", "corrupt", "compatible", "incompatible"}, secs \in DurationsWide :
           Probe(a, probe, secs)
    \/ \E a \in Acquirers : \E step \in ReencodeOutcomes(acq_duration[a]) : Reencode(a, step)
    \/ \E a \in Acquirers : Retry(a)
    \/ \E a \in Acquirers : GiveUp(a)
    \/ \E a \in Acquirers : MediaDrop(a)
    \/ \E f \in OutFiles : RemoveFile(f)

SpecRequests == Init /\ [][NextRequests]_vars

\* MediaProbe::get on every run of FfprobeRuns
InitProbe ==
    /\ InitConfig(0)
    /\ InitDaemon
    /\ ffprobe_run \in FfprobeRuns
    /\ media_probe = None
    /\ releases = Err("get")
    /\ latest = None
    /\ api_data = NoResponse
    /\ slideshow = None
    /\ message_in = NoMessage
    /\ message_out = None

NextProbe == MediaProbeGetCall

SpecProbe == InitProbe /\ [][NextProbe]_vars

\* YtDlpRelease::latest on every feed of Fetches
InitLatest ==
    /\ InitConfig(0)
    /\ InitDaemon
    /\ ffprobe_run = NoRun
    /\ media_probe = None
    /\ releases \in Fetches
    /\ latest = None
    /\ api_data = NoResponse
    /\ slideshow = None
    /\ message_in = NoMessage
    /\ message_out = None

NextLatest == YtDlpReleaseLatestCall

SpecLatest == InitLatest /\ [][NextLatest]_vars

\* extract_slideshow_images on every response of ApiResponses
InitSlideshow ==
    /\ InitConfig(0)
    /\ InitDaemon
    /\ ffprobe_run = NoRun
    /\ media_probe = None
    /\ releases = Err("get")
    /\ latest = None
    /\ api_data \in ApiResponses
    /\ slideshow = None
    /\ message_in = NoMessage
    /\ message_out = None

NextSlideshow == SlideshowCall

SpecSlideshow == InitSlideshow /\ [][NextSlideshow]_vars

\* generic_message on every input of MessageInputs
InitMessage ==
    /\ InitConfig(0)
    /\ InitDaemon
    /\ ffprobe_run = NoRun
    /\ media_probe = None
    /\ releases = Err("get")
    /\ latest = None
    /\ api_data = NoResponse
    /\ slideshow = None
    /\ message_in \in MessageInputs
    /\ message_out = None

NextMessage == GenericMessageCall

SpecMessage == InitMessage /\ [][NextMessage]_vars

\* the manager with both requesters, whose extractions all fail: the update
\* checks of concurrent calls and of their retries
NextUpdateCheck ==
    \/ Tick
    \/ \E u \in Updaters, ok \in BOOLEAN, release \in Releases : UpdateLatest(u, ok, release)
    \/ \E u \in Updaters : UpdateWriteLock(u)
    \/ \E u \in Updaters, step \in {"remove", "create", "ok"} : UpdateWipe(u, step)
    \/ \E u \in Updaters, step \in {"create", "fetch", "ok"} : UpdateFetch(u, step)
    \/ \E u \in Updaters, step \in {"set_permissions", "chmod", "ok"} : UpdateChmod(u, step)
    \/ \E a \in Acquirers : Request(a)
    \/ \E a \in Acquirers, create_ok \in BOOLEAN : DownloadBegin(a, create_ok, FALSE)
    \/ \E a \in Acquirers : UpdateCheckTryLock(a)
    \/ \E a \in Acquirers : UpdateCheckLocked(a)
    \/ \E a \in Acquirers : ReadLock(a)
    \/ \E a \in Acquirers : Extract(a, FALSE, FALSE)
    \/ \E a \in Acquirers : Retry(a)
    \/ \E a \in Acquirers : GiveUp(a)

SpecUpdateCheck == Init /\ [][NextUpdateCheck]_vars

\* the manager with the link-message handler as its only requester
NextRefresh ==
    \/ Tick
    \/ \E u \in Updaters, ok \in BOOLEAN, release \in Releases : UpdateLatest(u, ok, release)
    \/ \E u \in Updaters : UpdateWriteLock(u)
    \/ \E u \in Updaters, step \in {"remove", "create", "ok"} : UpdateWipe(u, step)
    \/ \E u \in Updaters, step \in {"create", "fetch", "ok"} : UpdateFetch(u, step)
    \/ \E u \in Updaters, step \in {"set_permissions", "chmod", "ok"} : UpdateChmod(u, step)
    \/ \E a \in Messages : Request(a)
    \/ \E a \in Messages, create_ok \in BOOLEAN, photo \in BOOLEAN : DownloadBegin(a, create_ok, photo)
    \/ \E a \in Messages, step \in {"early", "ffmpeg", "ok"}, created \in BOOLEAN : Slideshow(a, step, created)
    \/ \E a \in Messages : UpdateCheckTryLock(a)
    \/ \E a \in Messages : UpdateCheckLocked(a)
    \/ \E a \in Messages : ReadLock(a)
    \/ \E a \in Messages, status_ok \in BOOLEAN, created \in BOOLEAN : Extract(a, status_ok, created)
    \/ \E a \in Messages, probe \in {"err", "corrupt", "compatible", "incompatible"}, secs \in Durations :
           Probe(a, probe, secs)
    \/ \E a \in Messages : \E step \in ReencodeOutcomes(acq_duration[a]) : Reencode(a, step)
    \/ \E a \in Messages : Retry(a)
    \/ \E a \in Messages : GiveUp(a)
    \/ \E a \in Messages : MediaDrop(a)
    \/ \E f \in OutFiles : RemoveFile(f)

SpecRefresh == Init /\ [][NextRefresh]_vars

(***************************************************************************)
(* Properties of the configuration store.                                  *)
(***************************************************************************)
\* what get() on worker thread t returns if it runs now, alone: Some(config),
\* or None when it cannot return (Mutex held, or counter and signature differ)
GetResult(t) ==
    IF cache[t].edit_count = edit_count THEN Some(cache[t].config)
    ELSE IF store_lock = NoTask /\ store_config.signature = edit_count
    THEN Some(store_config.config)
    ELSE None

\* an edit() call of editor e returns an I/O error in this step
EditFailsIo(e) ==
    /\ ed_pc[e] \in {"set_len", "write"}
    /\ ed_pc'[e] = "idle"
    /\ ed_last'.result = "IoErr"

\* an edit() call returns a validation error in this step
EditFailsValidation ==
    /\ edits_started' = edits_started + 1
    /\ ed_pc' = ed_pc
    /\ ed_last'.result \in {"ParseErr", "RegexErr"}

\* C1: an edit that returns an error is never partially applied: after a
\* failed edit() call (validation error or I/O error) the committed config,
\* the counter edit_count and the backing file equal what they were before the
\* call (before its fetch_add: the value fetch_add returned).
C1_FailedEditNotApplied ==
    [][/\ EditFailsValidation =>
            /\ store_config' = store_config
            /\ edit_count' = edit_count
            /\ store_file'.data = store_file.data
       /\ \A e \in Editors : EditFailsIo(e) =>
            /\ store_config' = store_config
            /\ edit_count' = ed_edit_count[e]
            /\ store_file'.data = pre_file]_vars

\* C2: read() terminates with its slow-path iterations bounded by the edits
\* that ran concurrently: an iteration fails its re-check of the counter only
\* if an edit has bumped the counter since the iteration read the store.
C2_ReadIterationsBoundedByEdits ==
    \A r \in Readers :
        (rd_pc[r] = "check" /\ rd_fresh[r]) => edit_count = rd_local[r].signature

\* the payloads of EditInputs that are not a valid config
InvalidInputs == {TextTruncated, ToStringPretty(ConfigBadRegex)}

\* C8: edit() with a payload that does not parse, or with a pattern that does
\* not compile, returns an error, and read() on every worker returns the same
\* config as before, with counter, committed pair and backing file unchanged.
C8_InvalidEditRejected ==
    /\ [](ed_last.new \in InvalidInputs => ed_last.result \in {"ParseErr", "RegexErr"})
    /\ [](\A e \in Editors : ed_new[e] \notin InvalidInputs)
    /\ [][EditFailsValidation =>
            /\ \A t \in Threads : GetResult(t)' = GetResult(t)
            /\ edit_count' = edit_count
            /\ store_config' = store_config
            /\ store_file' = store_file]_vars

\* C8's case: an invalid payload was rejected after a config had been committed
\* and a worker had cached it
C8_Witness ==
    /\ ed_last.new \in InvalidInputs
    /\ ed_last.result \in {"ParseErr", "RegexErr"}
    /\ edit_count > 0
    /\ \E t \in Threads : cache[t].edit_count = edit_count /\ GetResult(t) # Some(CompiledConfigDefault)

\* the thread_local! initialiser: a pair no get() has stored
InitialCache == [edit_count |-> U16_MAX, config |-> CompiledConfigDefault]

\* C9: any (generation, config) pair that read() returns or stores in a
\* worker's cache was the store's committed pair at some instant: the pair a
\* slow-path iteration cloned, the pair in a cache that get() has written, and
\* the cached pair the fast path returns when its generation equals the counter.
C9_ObservedPairsCommitted ==
    /\ \A r \in Readers : rd_pc[r] = "check" => rd_local[r] \in committed
    /\ \A t \in Threads :
          (cache[t] # InitialCache \/ cache[t].edit_count = edit_count) =>
              SignedConfig(cache[t].edit_count, cache[t].config) \in committed

\* C10: on one worker thread the generations of the configs that successive
\* read() calls return never decrease.
C10_GenerationsNeverDecrease ==
    [][\A t \in Threads : last_ret[t] # -1 => last_ret'[t] >= last_ret[t]]_vars

\* an edit() call of editor e returns Ok in this step
EditCommits(e) ==
    /\ ed_pc[e] = "write"
    /\ ed_pc'[e] = "idle"
    /\ ed_last'.result = "Ok"

\* C11: once edit(text) has returned Ok and until a later edit commits, the
\* store holds the config compiled from text, and read() on every worker
\* thread, by the cache path or by the locked path, returns that config.
C11_EditThenReadYieldsConfig ==
    /\ [][\A e \in Editors : EditCommits(e) =>
            store_config'.config = CompiledConfigTryFrom(FromStr(ed_new[e]).value).value]_vars
    /\ [](\A t \in Threads : GetResult(t) # None => GetResult(t) = Some(store_config.config))
    /\ [](\A r \in Readers :
            (rd_pc[r] = "check" /\ edit_count = rd_local[r].signature) =>
                rd_local[r].config = store_config.config)

(***************************************************************************)
(* The yt-dlp manager and the requests                                     *)
(***************************************************************************)
\* the executable served to acquisitions could be launched before update() u
\* touched anything
ServedBefore(u) ==
    IF upd_pc[u] = "latest" THEN ServedRunnable(exe_dir, yt_dlp) ELSE upd_had_exe[u]

\* C3: a refresh that fails at any step leaves the manager's version tag and
\* path as they were, and an executable that could be launched before the
\* refresh can still be launched after it.
C3_FailedRefreshKeepsExecutable ==
    [][\A u \in Updaters :
          (u \in InFlight /\ upd_pc'[u] = "failed") =>
              /\ yt_dlp' = yt_dlp
              /\ ServedBefore(u) => ServedRunnable(exe_dir', yt_dlp')]_vars

\* the call of request a waits for the executable while an update() holds the
\* write guard, or waits for it ahead of a in the queue
BlockedByRefresh(a) ==
    /\ acq_pc[a] = "read_lock"
    /\ \/ rw_writer \in Updaters
       \/ /\ rw_readers # {}
          /\ \E i, j \in DOMAIN rw_queue :
                i < j /\ rw_queue[i] \in Updaters /\ rw_queue[j] = a

\* C4: no acquisition on its way to the extraction step ever has to wait for
\* a refresh to finish.
C4_RefreshNeverBlocksAcquisition == \A a \in Acquirers : ~BlockedByRefresh(a)

\* C5: at most one spawned update() task is in flight at any time.
C5_AtMostOneRefresh == Cardinality(InFlight) <= 1

\* C6: a call whose probe returned an error returns Ok with a media over the
\* original extracted file, which is still in the scratch directory.
C6_ProbeErrorDeliversOriginal ==
    \A a \in Acquirers :
        (acq_pc[a] = "returned" /\ acq_probe[a] = "err") =>
            /\ acq_result[a] = Ok("mp4")
            /\ OutFile(a, "mp4") \in out_dir

\* C7: once a request has finished and the removals spawned for it have run,
\* no file of that request is left in the scratch directory.
C7_ScratchFilesDeleted ==
    \A a \in Acquirers :
        (acq_pc[a] = "finished" /\ \A f \in deleting : f.req # a) =>
            \A f \in out_dir : f.req # a

(***************************************************************************)
(* Properties of the media pipeline: YtDlp::download and reencode_video.   *)
(***************************************************************************)
\* the call of request a has returned after probing its file as incompatible
ReturnedIncompatible(a) ==
    /\ acq_pc[a] = "returned"
    /\ acq_probe[a] = "incompatible"

\* reencode_video started the ffmpeg command in the call of request a
TranscodeStarted(a) ==
    /\ acq_reencode[a] # None
    /\ acq_reencode[a][1].cmd # None

\* C12 as stated: whenever the file probes as incompatible, the call runs a
\* transcode and returns the re-encoded path, not the extraction output path.
C12_IncompatibleIsTranscoded ==
    \A a \in Acquirers :
        ReturnedIncompatible(a) =>
            /\ TranscodeStarted(a)
            /\ acq_result[a] = Ok("reencoded")

\* C12, amended: a call that returns after an incompatible probe has entered
\* reencode_video once; with the bitrate at or above the floor it started one
\* transcode, below the floor none; the returned path is the re-encoded one
\* exactly when the transcode ran and succeeded, and the extraction output
\* path otherwise.
C12_IncompatibleTranscodedOnce ==
    \A a \in Acquirers :
        ReturnedIncompatible(a) =>
            /\ acq_duration[a] # None
            /\ acq_reencode[a] # None
            /\ TranscodeStarted(a) <=> ~BitrateTooLow(acq_duration[a][1])
            /\ acq_result[a].ok
            /\ acq_result[a].val = "reencoded" <=>
                   (TranscodeStarted(a) /\ acq_reencode[a][1].step \in {"ok", "ok_keep"})
            /\ acq_result[a].val # "reencoded" => acq_result[a].val = "mp4"

C12_Witness ==
    \E a \in Acquirers :
        /\ ReturnedIncompatible(a)
        /\ TranscodeStarted(a)
        /\ acq_result[a] = Ok("reencoded")
        /\ OutFile(a, "reencoded") \in out_dir

\* the video bitrate in bit/s as the specification computes it, for a file of
\* d seconds and the 10 MB target
TargetVideoBitrate(d) == (10 * 1024 * 1024 * 8) \div d - 128000

\* k is the bitrate of a d second file in kbit/s, rounded to an integer
IsRoundedKbps(k, d) ==
    LET bits_times_d == 10 * 1024 * 1024 * 8 - 128000 * d
        diff == 1000 * k * d - bits_times_d
    IN  /\ 2 * diff <= 1000 * d
        /\ 2 * diff >= -(1000 * d)

\* C13: for a probed duration d, when (10*1024*1024*8/d) - 128000 bit/s is
\* below 800 kbit/s, reencode_video returns BitrateTooLow with no transcode
\* command started and the call returns the original file, still in the output
\* directory at its path; at or above the floor the transcode command runs
\* with that video bitrate and 128 kbit/s audio.
C13_BitrateFloor ==
    \A a \in Acquirers :
        ReturnedIncompatible(a) =>
            LET d == acq_duration[a][1]
                reencode == acq_reencode[a][1]
            IN  IF TargetVideoBitrate(d) < 800 * 1000
                THEN /\ reencode.step = "too_low"
                     /\ reencode.cmd = None
                     /\ acq_result[a] = Ok("mp4")
                     /\ OutFile(a, "mp4") \in out_dir
                     /\ OutFile(a, "reencoded") \notin out_dir
                ELSE /\ reencode.step # "too_low"
                     /\ reencode.cmd # None
                     /\ DOMAIN reencode.cmd[1] = {"b_v", "b_a"}
                     /\ IsRoundedKbps(reencode.cmd[1].b_v, d)
                     /\ reencode.cmd[1].b_v >= 800
                     /\ reencode.cmd[1].b_a = 128

C13_Witness ==
    \E a, b \in Acquirers :
        /\ ReturnedIncompatible(a)
        /\ acq_duration[a] = Some(91)
        /\ acq_reencode[a] = Some([cmd |-> None, step |-> "too_low"])
        /\ acq_result[a] = Ok("mp4")
        /\ ReturnedIncompatible(b)
        /\ acq_duration[b] = Some(90)
        /\ acq_reencode[b][1].cmd = Some([b_v |-> 804, b_a |-> 128])

(***************************************************************************)
(* Properties of the request handlers.                                     *)
(***************************************************************************)
\* the handler of request a calls YtDlpDaemon::download in this step
Invokes(a) ==
    /\ acq_pc[a] # "download"
    /\ acq_pc'[a] = "download"

\* C14: per request download is invoked at most twice; an invocation after the
\* first is made only when the previous one returned an error, and none
\* follows a success; for the link-message handler and the /download command.
C14_BoundedRetry ==
    /\ [](\A a \in Acquirers : acq_attempt[a] <= 2)
    /\ [][\A a \in Acquirers :
            /\ Invokes(a) => acq_attempt'[a] = acq_attempt[a] + 1
            /\ acq_attempt'[a] > acq_attempt[a] => Invokes(a)
            /\ (Invokes(a) /\ acq_attempt[a] >= 1) =>
                   (acq_pc[a] = "returned" /\ ~acq_result[a].ok)
            /\ (acq_pc[a] = "returned" /\ acq_result[a].ok) => ~Invokes(a)]_vars

C14_Witness ==
    /\ \E a \in Messages :
           /\ acq_attempt[a] = 2
           /\ acq_pc[a] = "returned"
           /\ ~acq_result[a].ok
    /\ \E a \in Commands :
           /\ acq_attempt[a] = 1
           /\ acq_pc[a] = "returned"
           /\ ~acq_result[a].ok

(***************************************************************************)
(* Properties of the update check and of the refresh.                      *)
(***************************************************************************)
\* an update check made now would start a refresh
RefreshDue ==
    /\ now - last_update_check > YT_DLP_UPDATE_CHECK_INTERVAL
    /\ luc_lock = NoTask

\* C15: every call of download performs the update check: no call returns
\* from a point before update_check (the slideshow extractor included) while
\* the interval has elapsed and the lock on last_update_check is free.
C15_EveryCallChecksForUpdate ==
    [][\A a \in Acquirers :
          (acq_pc[a] # "returned" /\ acq_pc'[a] = "returned" /\ RefreshDue) =>
              acq_pc[a] \notin {"download", "slideshow"}]_vars

\* the release a version tag belongs to
ReleaseOf(tag_name) == CHOOSE release \in Releases : release.tag_name = tag_name

\* C16: an acquisition holding the read guard sees the tag and the path of one
\* version, no refresh is writing meanwhile, and the file at the path, when
\* there is one, is wholly downloaded and has been made executable.
C16_SwapAtomicToReaders ==
    \A a \in Acquirers :
        acq_pc[a] = "extract" =>
            /\ yt_dlp.tag_name \in {release.tag_name : release \in Releases}
            /\ yt_dlp.exe_path = ExePath(yt_dlp.tag_name)
            /\ rw_writer = NoTask
            /\ (exe_dir.exists /\ yt_dlp.exe_path \in DOMAIN exe_dir.files) =>
                   /\ exe_dir.files[yt_dlp.exe_path].len = ReleaseOf(yt_dlp.tag_name).size
                   /\ exe_dir.files[yt_dlp.exe_path].exec

\* update() u holds the write guard and is in download_release past the reuse
\* test: it wipes the directory, downloads the artifact or makes it executable
Downloading(u) == upd_pc[u] \in {"wipe", "fetch", "chmod"}

\* update() u has fetched the feed and finds the manager at the feed's release
AtLatest(u) ==
    /\ upd_pc[u] \in {"write_lock", "wipe", "fetch", "chmod"}
    /\ upd_release[u].tag_name = yt_dlp.tag_name

\* C17: a refresh whose feed names the version the manager is at downloads
\* nothing, does not wipe the artifact directory, and leaves the tag and the
\* path of the managed executable as they were.
C17_RefreshIdempotent ==
    /\ [](\A u \in Updaters : AtLatest(u) => ~Downloading(u))
    /\ [][\A u \in Updaters :
            (AtLatest(u) /\ upd_pc'[u] # upd_pc[u]) =>
                /\ ~Downloading(u)'
                /\ yt_dlp' = yt_dlp
                /\ exe_dir' = exe_dir]_vars

\* a second refresh returns having found the version that the first installed
C17_Witness ==
    \E u, v \in Updaters :
        /\ upd_pc[u] = "updated"
        /\ upd_pc[v] = "up_to_date"
        /\ yt_dlp.tag_name = ReleaseNew.tag_name

(***************************************************************************)
(* Properties of MediaProbe::get.                                          *)
(***************************************************************************)
\* the ffprobe process ran, and one of its streams carries the needle
ProcessRan == ffprobe_run.metadata # None /\ ffprobe_run.spawned

MarkerPrinted ==
    \E text \in {ffprobe_run.stdout, ffprobe_run.stderr} :
        \E i \in DOMAIN text : text[i] = LineTok(PACKET_CORRUPT)

\* C18: when the process ran, the marker on stdout or stderr gives Corrupt
\* whatever the exit status; without the marker a failing exit status gives an
\* error; a Probed value is returned only with neither.
C18_ClassificationOrder ==
    (media_probe # None /\ ProcessRan) =>
        LET result == media_probe[1]
        IN  /\ MarkerPrinted => result = Ok(Corrupt)
            /\ (~MarkerPrinted /\ ~ffprobe_run.status_ok) => result = Err("exit status")
            /\ (result.ok /\ result.val.kind = "Probed") =>
                   (~MarkerPrinted /\ ffprobe_run.status_ok)

\* the marker with exit status 0 and valid JSON on stdout: Corrupt
C18_Witness ==
    /\ media_probe = Some(Ok(Corrupt))
    /\ ffprobe_run.status_ok
    /\ ffprobe_run.stdout = ShowEntriesJson(<<VideoH264, AudioAac>>, <<"9", "0">>)
    /\ MarkerPrinted

\* the streams ffprobe printed
PrintedStreams == ffprobe_run.stdout[2].streams

Qualifies(i) ==
    /\ ~releases.val[i].draft
    /\ ~releases.val[i].prerelease
    /\ "yt-dlp_linux" \in {asset.name : asset \in releases.val[i].assets}

\* C20: latest returns the first release of the feed that is neither draft
\* nor prerelease and has an asset named as the platform's executable, with
\* that asset's URL and size; stable releases without the asset are passed
\* over; with no such release the result is an error.
C20_FirstQualifyingRelease ==
    (latest # None /\ releases.ok) =>
        LET feed == releases.val
            qualifying == {i \in DOMAIN feed : Qualifies(i)}
        IN  IF qualifying = {}
            THEN ~latest[1].ok
            ELSE LET first == CHOOSE i \in qualifying : \A j \in qualifying : i <= j
                 IN  /\ latest[1].ok
                     /\ latest[1].val.tag_name = feed[first].tag_name
                     /\ \E asset \in feed[first].assets :
                            /\ asset.name = "yt-dlp_linux"
                            /\ latest[1].val.browser_download_url = asset.browser_download_url
                            /\ latest[1].val.size = asset.size

\* the first release is stable and lacks the asset; the second is selected
C20_Witness ==
    /\ latest # None
    /\ releases.ok
    /\ Len(releases.val) = 2
    /\ ~releases.val[1].draft /\ ~releases.val[1].prerelease
    /\ releases.val[1].assets = {OtherAsset(1)}
    /\ latest[1] = Ok([tag_name |-> FeedTag(2),
                        browser_download_url |-> ExeAsset(2).browser_download_url,
                        size |-> ExeAsset(2).size])

(***************************************************************************)
(* Properties of the slideshow extractor.                                  *)
(***************************************************************************)
\* the entries of the response that carry a width, a height and a URL
UsableImages ==
    IF api_data.images = None THEN {}
    ELSE {i \in DOMAIN api_data.images[1] :
            /\ api_data.images[1][i].imageWidth # None
            /\ api_data.images[1][i].imageHeight # None
            /\ api_data.images[1][i].imageURL # None}

FilesTouched ==
    (out_dir \ out_dir') \cup (out_dir' \ out_dir)
        \cup (deleting \ deleting') \cup (deleting' \ deleting)

\* C22: every file a step of a request creates, removes or marks for removal
\* carries the uuid of that request's current call, and the task spawned by
\* a drop removes only the file it was given: no two requests touch one file.
C22_RequestsTouchOwnFiles ==
    [][\A f \in FilesTouched :
          \/ \E a \in Acquirers :
                /\ acq_pc'[a] # acq_pc[a]
                /\ f.req = a
                /\ f.attempt = acq_attempt[a]
          \/ /\ acq_pc' = acq_pc
             /\ f \in deleting
             /\ deleting' = deleting \ {f}]_vars

\* both requests have files in the directory, one of them re-encoded
C22_Witness ==
    \E a, b \in Acquirers :
        /\ a # b
        /\ acq_pc[a] = "returned" /\ acq_result[a] = Ok("reencoded")
        /\ OutFile(a, "reencoded") \in out_dir
        /\ acq_pc[b] = "reencode"
        /\ OutFile(b, "mp4") \in out_dir

(***************************************************************************)
(* Further properties of the configuration store.                          *)
(***************************************************************************)
\* the file holds a document whose compiled form is `config`
FileSerializes(config) ==
    LET parsed == FromStr(store_file.data)
    IN  /\ parsed.ok
        /\ ToStringPretty(parsed.value) = store_file.data
        /\ CompiledConfigTryFrom(parsed.value).ok
        /\ CompiledConfigTryFrom(parsed.value).value = config

\* C23: whenever the Mutex of the store is free, the counter equals the
\* signature of the committed config and the file is the serialization of
\* the committed config.
C23_StoreConsistentWhenUnlocked ==
    store_lock = NoTask =>
        /\ edit_count = store_config.signature
        /\ FileSerializes(store_config.config)

\* C24: every successful edit stamps a generation greater than the one
\* before it, two committed configs with one generation are the same config,
\* and a worker whose cached generation equals the counter while no edit is
\* in its critical section holds the committed config.
C24_GenerationsStrictlyIncrease ==
    /\ [][\A e \in Editors :
            EditCommits(e) => store_config'.signature > store_config.signature]_vars
    /\ [](\A c1, c2 \in committed : c1.signature = c2.signature => c1 = c2)
    /\ [](\A t \in Threads :
            (store_lock = NoTask /\ cache[t].edit_count = edit_count /\ last_ret[t] # -1) =>
                cache[t].config = store_config.config)

(***************************************************************************)
(* Further properties of the refresh.                                      *)
(***************************************************************************)
\* the acquisitions inside YtDlp::download: they run the extraction tool from
\* exe_path, or probe or re-encode its output, under the read guard
HoldsExecutable == {a \in Acquirers : acq_pc[a] \in {"extract", "probe", "reencode"}}

\* C25: a step that wipes or writes the artifact directory or replaces the
\* managed executable is taken only when no acquisition holds the
\* executable, and none holds it while an update() is in download_release.
C25_NoWipeOrSwapUnderReaders ==
    /\ [][(exe_dir' # exe_dir \/ yt_dlp' # yt_dlp) =>
            (HoldsExecutable = {} /\ rw_readers = {})]_vars
    /\ [](\A u \in Updaters : Downloading(u) => HoldsExecutable = {})
    /\ [](HoldsExecutable = rw_readers)

\* an update() is first in line for the write guard while an acquisition
\* runs the extraction tool
C25_Witness ==
    \E u \in Updaters, a \in Acquirers :
        /\ upd_pc[u] = "write_lock"
        /\ rw_queue # <<>> /\ Head(rw_queue) = u
        /\ upd_release[u].tag_name # yt_dlp.tag_name
        /\ acq_pc[a] = "extract"
        /\ a \in rw_readers

(***************************************************************************)
(* Further properties of the media pipeline.                               *)
(***************************************************************************)
\* the call of request a has returned after reencode_video ran in it
ReturnedReencode(a) ==
    /\ acq_pc[a] = "returned"
    /\ acq_reencode[a] # None

\* ffmpeg exited successfully and its output is there
TranscodeSucceeded(a) == acq_reencode[a][1].step \in {"ok", "ok_keep"}

\* C26 as stated: after a successful transcode the original is gone and the
\* media is the new file; after a failed or skipped one the original is in
\* place and the media is the original; the media's file exists.
C26_TranscodeLeavesOneFile ==
    \A a \in Acquirers :
        ReturnedReencode(a) =>
            /\ acq_result[a].ok
            /\ OutFile(a, acq_result[a].val) \in out_dir
            /\ IF TranscodeSucceeded(a)
               THEN /\ acq_result[a].val = "reencoded"
                    /\ OutFile(a, "mp4") \notin out_dir
               ELSE /\ acq_result[a].val = "mp4"
                    /\ OutFile(a, "mp4") \in out_dir

\* C26, amended: as stated, but after a successful transcode the original is
\* gone exactly when its removal succeeded; when the removal failed both
\* files are there and the media is still the new file.
C26_TranscodeRepointsMedia ==
    \A a \in Acquirers :
        ReturnedReencode(a) =>
            /\ acq_result[a].ok
            /\ OutFile(a, acq_result[a].val) \in out_dir
            /\ IF TranscodeSucceeded(a)
               THEN /\ acq_result[a].val = "reencoded"
                    /\ OutFile(a, "mp4") \in out_dir <=> acq_reencode[a][1].step = "ok_keep"
               ELSE /\ acq_result[a].val = "mp4"
                    /\ OutFile(a, "mp4") \in out_dir

\* a successful transcode has replaced the original by the re-encoded file
C26_Witness ==
    \E a \in Acquirers :
        /\ ReturnedReencode(a)
        /\ acq_reencode[a][1].step = "ok"
        /\ acq_result[a] = Ok("reencoded")
        /\ OutFile(a, "reencoded") \in out_dir
        /\ OutFile(a, "mp4") \notin out_dir

\* line 135: a file is at the release's path and has the release's size
CacheHit(release) ==
    /\ exe_dir.exists
    /\ ExePath(release.tag_name) \in DOMAIN exe_dir.files
    /\ exe_dir.files[ExePath(release.tag_name)].len = release.size

\* update() u calls download_release in this step
CallsDownloadRelease(u) ==
    /\ upd_pc[u] = "write_lock"
    /\ upd_pc'[u] # "write_lock"
    /\ upd_release[u].tag_name # yt_dlp.tag_name

\* the directory "yt_dlp_exe" right after remove_dir_all and create_dir_all
WipedDir == [exists |-> TRUE, files |-> <<>>]

\* C27: download_release reuses a file at the release's path whose length is
\* the release's size, without a download and without touching the directory;
\* in every other case nothing is written into the directory before it was
\* removed and created again.
C27_ReuseBySizeElseWipe ==
    /\ [][\A u \in Updaters :
            CallsDownloadRelease(u) =>
                /\ exe_dir' = exe_dir
                /\ IF CacheHit(upd_release[u])
                   THEN /\ upd_pc'[u] = "updated"
                        /\ yt_dlp'.exe_path = ExePath(upd_release[u].tag_name)
                   ELSE upd_pc'[u] = "wipe"]_vars
    /\ [][\A u \in Updaters :
            (upd_pc'[u] = "fetch" /\ upd_pc[u] # "fetch") =>
                (upd_pc[u] = "wipe" /\ exe_dir' = WipedDir)]_vars
    /\ [](\A u \in Updaters : upd_pc[u] = "fetch" => exe_dir = WipedDir)
    /\ [][(exe_dir'.files # exe_dir.files /\ exe_dir'.files # <<>>) =>
            \E u \in Updaters : upd_pc[u] \in {"fetch", "chmod"} /\ rw_writer = u]_vars

\* an update() has swapped in a file it found on disk: the file was never
\* made executable, so no download of this update() wrote it
C27_Witness ==
    \E u \in Updaters :
        /\ upd_pc[u] = "updated"
        /\ yt_dlp.tag_name = ReleaseNew.tag_name
        /\ CacheHit(ReleaseNew)
        /\ ~exe_dir.files[yt_dlp.exe_path].exec

\* C28: a file classified Corrupt has no duration, always goes on to the
\* re-encode, and its command carries the constant quality -crf 23 and no
\* bitrate; the re-encode is never skipped with BitrateTooLow.
C28_CorruptUsesConstantQuality ==
    \A a \in Acquirers :
        acq_probe[a] = "corrupt" =>
            /\ acq_duration[a] = None
            /\ acq_pc[a] \in {"reencode", "returned"}
            /\ acq_pc[a] = "returned" =>
                   /\ acq_reencode[a] # None
                   /\ acq_reencode[a][1].step # "too_low"
                   /\ acq_reencode[a][1].cmd = Some([crf |-> 23])

\* the call over a Corrupt file has returned after its re-encode ran
C28_Witness ==
    \E a \in Acquirers :
        /\ acq_probe[a] = "corrupt"
        /\ acq_pc[a] = "returned"
        /\ acq_reencode[a] # None
        /\ acq_reencode[a][1].step = "ok"
        /\ acq_reencode[a][1].cmd = Some([crf |-> 23])

\* request a is in no queue and holds no guard of the managed executable
\* or of the update clock
OffTheLocks(a) ==
    /\ a \notin rw_readers
    /\ rw_writer # a
    /\ \A i \in DOMAIN rw_queue : rw_queue[i] # a
    /\ luc_lock # a

\* C29: a call whose resolved url is a slideshow post is entered straight
\* from the start of download, runs no extraction, probe or re-encode, takes
\* neither the read guard nor the update check, and returns what the
\* slideshow extractor returned, as a media without url.
C29_SlideshowBypassesPipeline ==
    /\ [](\A a \in Acquirers :
            acq_pc[a] = "slideshow" =>
                /\ OffTheLocks(a)
                /\ acq_probe[a] = "none"
                /\ acq_reencode[a] = None)
    /\ [][\A a \in Acquirers :
            (acq_pc'[a] = "slideshow" /\ acq_pc[a] # "slideshow") => acq_pc[a] = "download"]_vars
    /\ [][\A a \in Acquirers :
            (acq_pc[a] = "slideshow" /\ acq_pc'[a] # "slideshow") =>
                /\ acq_pc'[a] = "returned"
                /\ acq_result'[a] \in {Ok("mp4"), Err("slideshow"), Err("slideshow ffmpeg"),
                                        Err("slideshow file was not created")}
                /\ acq_result'[a].ok => OutFile(a, "mp4") \in out_dir'
                /\ acq_url'[a] = None
                /\ acq_probe'[a] = "none"
                /\ acq_reencode'[a] = None
                /\ OffTheLocks(a)'
                /\ UNCHANGED upd_vars]_vars

\* a slideshow call has returned its video on the first attempt, unprobed,
\* while another request is in the slideshow extractor; no update() was spawned
C29_Witness ==
    \E a, b \in Acquirers :
        /\ acq_pc[a] = "returned"
        /\ acq_result[a] = Ok("mp4")
        /\ acq_probe[a] = "none"
        /\ acq_attempt[a] = 1
        /\ acq_pc[b] = "slideshow"
        /\ \A u \in Updaters : upd_pc[u] = "unspawned"

\* the send_message calls of the handler that carry a fixed-up link
FixupPosts == {i \in DOMAIN message_out[1].sent : message_out[1].sent[i].content # None}

\* C30: the handler posts a fixed-up link only after the file was over the
\* size limit or its upload was answered with payload-too-large, only when
\* the matched rule has a fixup template, and only when the substituted link
\* differs from the link; the download is always asked for the link itself.
C30_FixupOnlyOnSizeRejection ==
    message_out # None =>
        /\ message_out[1].acquired = DownloadUrl
        /\ \A i \in FixupPosts :
              /\ message_in.download_ok /\ message_in.metadata_ok
              /\ \/ message_in.media_size > DISCORD_FILE_SIZE_LIMIT
                 \/ /\ message_in.attachment_ok
                    /\ message_in.send = "payload_too_large"
              /\ message_in.rule.fixup # None
              /\ message_out[1].sent[i].content = Some(RegexReplace(DownloadUrl, message_in.rule.fixup[1]))
              /\ message_out[1].sent[i].content # Some(DownloadUrl)
              /\ ~message_out[1].sent[i].file

\* the upload of a file within the limit was answered with 413 and the
\* handler then posted the link on the fixup host
C30_Witness ==
    /\ message_out # None
    /\ message_in.media_size = DISCORD_FILE_SIZE_LIMIT
    /\ message_in.send = "payload_too_large"
    /\ Len(message_out[1].sent) = 2
    /\ message_out[1].sent[2].content = Some(<<"fxhost", "path">>)

(***************************************************************************)
(* The cache sentinel, the update clock, the slideshow's audio.            *)
(***************************************************************************)
\* C31: a worker thread whose cache still holds the pair of the thread_local!
\* initialiser never finds its generation, u16::MAX, equal to the counter, so
\* its first get() takes the locked path and does not return the default
\* config of the initialiser.
C31_SentinelNeverCurrent ==
    \A t \in Threads :
        cache[t] = InitialCache =>
            /\ cache[t].edit_count # edit_count
            /\ GetResult(t) # None => GetResult(t) = Some(store_config.config)

\* update() task u is spawned in this step
Spawned(u) ==
    /\ u \notin InFlight
    /\ upd_pc'[u] = "latest"

\* C32: last_update_check is set to the present exactly when an update() is
\* spawned, and never when one returns; an update() is spawned only when more
\* than the interval has passed since the timestamp, so two spawns are more
\* than an interval apart whatever became of the first; and an update check
\* that finds the Mutex held leaves the timestamp, the Mutex and the update
\* tasks as they are.
C32_TimestampResetAtSpawn ==
    /\ [][(\E u \in Updaters : Spawned(u)) =>
            /\ now - last_update_check > YT_DLP_UPDATE_CHECK_INTERVAL
            /\ last_update_check' = now]_vars
    /\ [][last_update_check' # last_update_check => \E u \in Updaters : Spawned(u)]_vars
    /\ [][\A a \in Acquirers :
            (acq_pc[a] = "update_check" /\ acq_pc'[a] # "update_check" /\ luc_lock # NoTask) =>
                /\ acq_pc'[a] = "read_lock"
                /\ UNCHANGED <<last_update_check, luc_lock, upd_pc, upd_release, yt_dlp, exe_dir>>]_vars

\* a second update() has just been spawned, an interval or more after the
\* first, which failed
C32_Witness ==
    \E u, v \in Updaters :
        /\ upd_pc[u] = "failed"
        /\ upd_pc[v] = "latest"
        /\ last_update_check = now
        /\ now >= 4 * YT_DLP_UPDATE_CHECK_INTERVAL

\* the command reads a second input, maps an audio stream or pads audio
UsesAudio(cmd) ==
    \/ Len(cmd.inputs) > 1
    \/ \E i \in DOMAIN cmd.map : cmd.map[i] = "1:a"
    \/ cmd.filter_complex = "[1:0] apad"

\* C33: the synthesis command of an item without audio URL has the concat
\* script as its only input and neither maps nor pads an audio stream; with
\* an audio URL it has the URL as second input, maps its audio and pads it.
C33_AudioOnlyWhenPresent ==
    (slideshow # None /\ slideshow[1].ok) =>
        LET cmd == slideshow[1].val
        IN  IF api_data.music = None
            THEN cmd.inputs = <<"-">> /\ ~UsesAudio(cmd)
            ELSE /\ cmd.inputs = <<"-", api_data.music[1]>>
                 /\ \E i \in DOMAIN cmd.map : cmd.map[i] = "1:a"
                 /\ cmd.filter_complex = "[1:0] apad"

====
